---------------------------- MODULE Spec2Model ----------------------------
(***************************************************************************)
(* A model of the time_lang transpiler: the runtime Stream (the fixed-size *)
(* ring buffer that serves as exit and as gateway) and the                 *)
(* forward_duration operations built on it, the Parser that dispatches the *)
(* source lines to the section builders and emits their code, and the      *)
(* label methods of an emitted program.                                    *)
(***************************************************************************)
EXTENDS Integers, Sequences, FiniteSets, TLC

(***************************************************************************)
(* Bounds of the model.                                                    *)
(***************************************************************************)
\* largest BUFFER_SIZE of the Stream that the API specification exercises
MaxBufferSize == 3

\* moments are 0..MaxMoment
MaxMoment == 1

Moments == 0 .. MaxMoment

\* largest BUFFER_SIZE of the Stream whose runs of pushes and pops are tracked
MaxCursorSize == 2

\* longest sequence of items a gateway is pre-loaded with
MaxPreload == 5

\* largest BUFFER_SIZE of the exit that forward_duration pushes onto
MaxExitSize == 4

(***************************************************************************)
(* The alphabet: two of the (value, name) pairs that main.rs declares with *)
(* def_char (0x41,A_UPPERCASE and 0x42,B_UPPERCASE); the second component  *)
(* is the variant of the emitted character enum.                           *)
(***************************************************************************)
chars == << <<65, "AUppercase">>, <<66, "BUppercase">> >>

CharEnum == { chars[i][2] : i \in 1 .. Len(chars) }

\* index of the first match arm whose pattern, component col of a pair, is x
FirstArm(col, x) ==
    CHOOSE i \in 1 .. Len(chars) :
        chars[i][col] = x /\ \A j \in 1 .. (i - 1) : chars[j][col] # x

\* fn to_val(chr) -> CharRep : one arm per declared pair, variant => value
to_val(chr) == chars[FirstArm(2, chr)][1]

\* fn to_char(rep) -> Result<CharEnum, AlphabetError> : value => Ok(variant),
\* anything else Err(UnknownCharacter(rep))
to_char(rep) ==
    IF \E i \in 1 .. Len(chars) : chars[i][1] = rep
    THEN [ok |-> TRUE, chr |-> chars[FirstArm(1, rep)][2]]
    ELSE [ok |-> FALSE, rep |-> rep]

(***************************************************************************)
(* StreamItem and Option.                                                  *)
(***************************************************************************)
Empty == [tag |-> "Empty"]

Character(c) == [tag |-> "Character", chr |-> c]

Moment(m) == [tag |-> "Moment", moment |-> m]

None == << >>

Some(m) == << m >>

\* results of the exit operations and of a panic
Ok == [tag |-> "Ok"]

BufferFull == [tag |-> "Err", err |-> "BufferFull"]

Unit == [tag |-> "Unit"]

Panic == [tag |-> "Panic"]

(***************************************************************************)
(* The Stream.  A stream is a record of the struct's fields; BUFFER_SIZE   *)
(* is the const parameter of its type and buffer is indexed from 0.        *)
(***************************************************************************)
new(size) ==
    [ BUFFER_SIZE         |-> size,
      buffer              |-> [i \in 0 .. (size - 1) |-> Empty],
      idx                 |-> 0,
      buffered_total      |-> 0,
      buffered_moments    |-> 0,
      buffered_characters |-> 0,
      last_seen_moment    |-> None ]

\* inc_index without the wrap-around: the cursor stops at the last cell
inc_index_NoWrap(s) ==
    [s EXCEPT !.idx = IF s.idx + 1 < s.BUFFER_SIZE THEN s.idx + 1 ELSE s.idx]

inc_index(s) == [s EXCEPT !.idx = (s.idx + 1) % s.BUFFER_SIZE]

set_initial_moment(s, moment) ==
    [s |-> [s EXCEPT !.last_seen_moment = Some(moment)], ret |-> Unit]

\* accepting_pushes with the comparison off by one
accepting_pushes_Inclusive(s) == s.buffered_total <= s.BUFFER_SIZE

accepting_pushes(s) == s.buffered_total < s.BUFFER_SIZE

\* push that forgets to count the character in buffered_total
push_NoTotal(s, chr) ==
    IF accepting_pushes(s)
    THEN [ s   |-> inc_index([s EXCEPT
                      !.buffer[s.idx] = Character(to_val(chr)),
                      !.buffered_characters = s.buffered_characters + 1]),
           ret |-> Ok ]
    ELSE [ s |-> s, ret |-> BufferFull ]

push(s, chr) ==
    IF accepting_pushes(s)
    THEN [ s   |-> inc_index([s EXCEPT
                      !.buffer[s.idx] = Character(to_val(chr)),
                      !.buffered_characters = s.buffered_characters + 1,
                      !.buffered_total = s.buffered_total + 1]),
           ret |-> Ok ]
    ELSE [ s |-> s, ret |-> BufferFull ]

\* push_moment that never refuses
push_moment_Unguarded(s, moment) ==
    [ s   |-> inc_index([s EXCEPT
                 !.buffer[s.idx] = Moment(moment),
                 !.buffered_moments = s.buffered_moments + 1,
                 !.buffered_total = s.buffered_total + 1]),
      ret |-> Ok ]

\* push_moment that forgets to advance the cursor
push_moment_NoAdvance(s, moment) ==
    IF accepting_pushes(s)
    THEN [ s   |-> [s EXCEPT
                      !.buffer[s.idx] = Moment(moment),
                      !.buffered_moments = s.buffered_moments + 1,
                      !.buffered_total = s.buffered_total + 1],
           ret |-> Ok ]
    ELSE [ s |-> s, ret |-> BufferFull ]

\* push_moment that forgets to count the moment in buffered_moments
push_moment_NoCount(s, moment) ==
    IF accepting_pushes(s)
    THEN [ s   |-> inc_index([s EXCEPT
                      !.buffer[s.idx] = Moment(moment),
                      !.buffered_total = s.buffered_total + 1]),
           ret |-> Ok ]
    ELSE [ s |-> s, ret |-> BufferFull ]

push_moment(s, moment) ==
    IF accepting_pushes(s)
    THEN [ s   |-> inc_index([s EXCEPT
                      !.buffer[s.idx] = Moment(moment),
                      !.buffered_moments = s.buffered_moments + 1,
                      !.buffered_total = s.buffered_total + 1]),
           ret |-> Ok ]
    ELSE [ s |-> s, ret |-> BufferFull ]

\* pop that does not record the moment it takes
pop_ForgetsMoment(s) ==
    LET last  == s.buffer[s.idx]
        taken == inc_index([s EXCEPT !.buffer[s.idx] = Empty])
    IN  CASE last.tag = "Character" ->
                LET t == [taken EXCEPT
                            !.buffered_characters = taken.buffered_characters - 1,
                            !.buffered_total = taken.buffered_total - 1]
                    c == to_char(last.chr)
                IN  [ s |-> t, ret |-> IF c.ok THEN Character(c.chr) ELSE Panic ]
          [] last.tag = "Moment" ->
                [ s   |-> [taken EXCEPT
                             !.buffered_moments = taken.buffered_moments - 1,
                             !.buffered_total = taken.buffered_total - 1],
                  ret |-> Moment(last.moment) ]
          [] OTHER -> [ s |-> taken, ret |-> Empty ]

\* pop that leaves the cursor at a cell that is Empty
pop_EmptyStays(s) ==
    LET last  == s.buffer[s.idx]
        taken == inc_index([s EXCEPT !.buffer[s.idx] = Empty])
    IN  CASE last.tag = "Character" ->
                LET t == [taken EXCEPT
                            !.buffered_characters = taken.buffered_characters - 1,
                            !.buffered_total = taken.buffered_total - 1]
                    c == to_char(last.chr)
                IN  [ s |-> t, ret |-> IF c.ok THEN Character(c.chr) ELSE Panic ]
          [] last.tag = "Moment" ->
                [ s   |-> [taken EXCEPT
                             !.buffered_moments = taken.buffered_moments - 1,
                             !.buffered_total = taken.buffered_total - 1,
                             !.last_seen_moment = Some(last.moment)],
                  ret |-> Moment(last.moment) ]
          [] OTHER -> [ s |-> s, ret |-> Empty ]

pop(s) ==
    LET last  == s.buffer[s.idx]
        taken == inc_index([s EXCEPT !.buffer[s.idx] = Empty])
    IN  CASE last.tag = "Character" ->
                LET t == [taken EXCEPT
                            !.buffered_characters = taken.buffered_characters - 1,
                            !.buffered_total = taken.buffered_total - 1]
                    c == to_char(last.chr)
                IN  [ s |-> t, ret |-> IF c.ok THEN Character(c.chr) ELSE Panic ]
          [] last.tag = "Moment" ->
                [ s   |-> [taken EXCEPT
                             !.buffered_moments = taken.buffered_moments - 1,
                             !.buffered_total = taken.buffered_total - 1,
                             !.last_seen_moment = Some(last.moment)],
                  ret |-> Moment(last.moment) ]
          [] OTHER -> [ s |-> taken, ret |-> Empty ]

current_moment(s) == s.last_seen_moment

is_empty(s) == s.buffered_total = 0

\* next_is_character that only tells a live cell from an Empty one
next_is_character_NotEmpty(s) == s.buffer[s.idx].tag # "Empty"

next_is_character(s) == s.buffer[s.idx].tag = "Character"

next_is_moment(s) == s.buffer[s.idx].tag = "Moment"

(***************************************************************************)
(* The transpiler.  A source line is a record: a command (the identifier   *)
(* and the arguments that CMD_REGEX captures, args being the text split at *)
(* the commas and << >> when the optional group did not take part), a      *)
(* comment, or a line that matches neither pattern.                        *)
(***************************************************************************)
Command(cmd, args) == [form |-> "command", cmd |-> cmd, args |-> args]

Comment == [form |-> "comment"]

Unmatched == [form |-> "unmatched"]

\* convert_case's to_case(Case::Pascal) on the identifiers of the model
Pascal(s) ==
    CASE s = "ASCII" -> "Ascii"
      [] s = "counter_clock" -> "CounterClock"
      [] s = "unix_clock" -> "UnixClock"
      [] s = "sync2" -> "Sync2"
      [] s = "hello_world" -> "HelloWorld"
      [] s = "SPACE" -> "Space"
      [] s = "EXCLAMATION_POINT" -> "ExclamationPoint"
      [] s = "COMMA" -> "Comma"
      [] s = "H_UPPERCASE" -> "HUppercase"
      [] s = "W_UPPERCASE" -> "WUppercase"
      [] s = "D_LOWERCASE" -> "DLowercase"
      [] s = "E_LOWERCASE" -> "ELowercase"
      [] s = "L_LOWERCASE" -> "LLowercase"
      [] s = "O_LOWERCASE" -> "OLowercase"
      [] s = "R_LOWERCASE" -> "RLowercase"
      [] s = "QUANTITY" -> "Quantity"
      [] s = "UNIX_TIMESTAMP" -> "UnixTimestamp"
      [] s = "A_UPPERCASE" -> "AUppercase"
      [] s = "B_UPPERCASE" -> "BUppercase"
      [] OTHER -> s

\* convert_case's to_case(Case::Snake) on the identifiers of the model
Snake(s) ==
    CASE s = "A" -> "a"
      [] s = "B" -> "b"
      [] s = "C" -> "c"
      [] s = "Time(A)" -> "time_a"
      [] s = "Time(B)" -> "time_b"
      [] OTHER -> s

\* Result values of the generators, and a panic of the transpiler; an error
\* text or panic message that is formatted from values is the tuple of its
\* fixed text and these values
OkCode(code) == [tag |-> "Ok", code |-> code]

Err(err) == [tag |-> "Err", err |-> err]

PanicWith(msg) == [tag |-> "Panic", msg |-> msg]

\* the "\n" that separates the chunks of the output
Newline == [item |-> "newline"]

(***************************************************************************)
(* Alphabet builder and emitter.                                           *)
(***************************************************************************)
Alphabet_new(name) ==
    [kind |-> "Alphabet", name |-> name, char_type |-> None, chars |-> << >>]

Alphabet_process_command(self, cmd, args) ==
    CASE cmd = "set_char_type" /\ Len(args) = 1 ->
             [tag |-> "Ok", state |-> [self EXCEPT !.char_type = Some(args[1])]]
      [] cmd = "def_char" /\ Len(args) = 2 ->
             [tag |-> "Ok",
              state |-> [self EXCEPT !.chars = Append(@, << args[1], args[2] >>)]]
      [] OTHER -> PanicWith("Alphabet - unknown command")

\* the emitted block: the enum variants and the match arms of the three
\* conversion functions, one per declared pair, in declaration order
\* str::parse::<proc_macro2::TokenStream>(): the tokens of the text, or the
\* error of the lexer for a text that is no sequence of token trees, such
\* as a delimiter that is never closed
TokenStream_parse(s) ==
    IF s = "(" THEN Err("LexError") ELSE [tag |-> "Ok", tokens |-> s]

\* unwrap() of the Err of the lexer
Unwrapped ==
    PanicWith(<< "called Result::unwrap() on an Err value", "LexError" >>)

Alphabet_generate(self) ==
    IF self.char_type = None
    THEN Err(<< "Never called set_char_type on Alphabet", self.name >>)
    ELSE IF \E i \in 1 .. Len(self.chars) :
                TokenStream_parse(self.chars[i][1]).tag = "Err"
    THEN Unwrapped
    ELSE OkCode(<< [item |-> "alphabet",
                    struct_name |-> << "Alphabet", Pascal(self.name) >>,
                    char_enum_name |-> << "Char", Pascal(self.name) >>,
                    char_rep |-> self.char_type[1],
                    arms |-> [i \in 1 .. Len(self.chars) |->
                                 << self.chars[i][1], Pascal(self.chars[i][2]) >>],
                    name_arms |-> [i \in 1 .. Len(self.chars) |->
                                      << self.chars[i][2], Pascal(self.chars[i][2]) >>]] >>)

\* the value of a numeric literal of the source
Lit(s) ==
    CASE s = "0" -> 0
      [] s = "1" -> 1
      [] s = "0x2" -> 2
      [] s = "0x3" -> 3
      [] s = "0x20" -> 32
      [] s = "0x21" -> 33
      [] s = "0x2C" -> 44
      [] s = "0x41" -> 65
      [] s = "0x42" -> 66
      [] s = "0x43" -> 67
      [] s = "0x48" -> 72
      [] s = "0x50" -> 80
      [] s = "0x57" -> 87
      [] s = "0x64" -> 100
      [] s = "0x65" -> 101
      [] s = "0x6C" -> 108
      [] s = "0x6F" -> 111
      [] s = "0x72" -> 114

\* the number of values of the integer type of a character
TypeRange(type) ==
    CASE type = "u8" -> 256
      [] type = "u16" -> 65536

\* index of the first arm of a match whose pattern, component col of the arm,
\* is x, or 0 when the match falls through to its last arm
FirstArmOf(arms, col, x) ==
    IF \E i \in 1 .. Len(arms) : arms[i][col] = x
    THEN CHOOSE i \in 1 .. Len(arms) :
             arms[i][col] = x /\ \A j \in 1 .. (i - 1) : arms[j][col] # x
    ELSE 0

\* the arms lit => Ok(Variant()) of the emitted to_char, with the values of
\* their literals
ValueArms(alphabet) ==
    [i \in 1 .. Len(alphabet.arms) |->
        << Lit(alphabet.arms[i][1]), alphabet.arms[i][2] >>]

\* the functions of the emitted alphabet block
Emitted_char_with_name(alphabet, name) ==
    IF FirstArmOf(alphabet.name_arms, 1, name) # 0
    THEN [ok |-> TRUE,
          chr |-> alphabet.name_arms[FirstArmOf(alphabet.name_arms, 1, name)][2]]
    ELSE [ok |-> FALSE, err |-> << "NameNotFound" >>]

Emitted_to_char(alphabet, rep) ==
    IF FirstArmOf(ValueArms(alphabet), 1, rep) # 0
    THEN [ok |-> TRUE,
          chr |-> alphabet.arms[FirstArmOf(ValueArms(alphabet), 1, rep)][2]]
    ELSE [ok |-> FALSE, err |-> << "UnknownCharacter", rep >>]

Emitted_to_val(alphabet, chr) ==
    ValueArms(alphabet)[FirstArmOf(alphabet.arms, 2, chr)][1]
        % TypeRange(alphabet.char_rep)

\* a push that writes the character and leaves the cursor where it is
push_in_NoAdvance(alphabet, s, chr) ==
    IF accepting_pushes(s)
    THEN [ s   |-> [s EXCEPT
                      !.buffer[s.idx] = Character(Emitted_to_val(alphabet, chr)),
                      !.buffered_characters = s.buffered_characters + 1,
                      !.buffered_total = s.buffered_total + 1],
           ret |-> Ok ]
    ELSE [ s |-> s, ret |-> BufferFull ]

\* push and pop of a Stream whose Alphabet parameter is the emitted
\* alphabet: Alphabet::to_val and Alphabet::to_char are its functions
push_in(alphabet, s, chr) ==
    IF accepting_pushes(s)
    THEN [ s   |-> inc_index([s EXCEPT
                      !.buffer[s.idx] = Character(Emitted_to_val(alphabet, chr)),
                      !.buffered_characters = s.buffered_characters + 1,
                      !.buffered_total = s.buffered_total + 1]),
           ret |-> Ok ]
    ELSE [ s |-> s, ret |-> BufferFull ]

pop_in(alphabet, s) ==
    LET last  == s.buffer[s.idx]
        taken == inc_index([s EXCEPT !.buffer[s.idx] = Empty])
    IN  CASE last.tag = "Character" ->
                LET t == [taken EXCEPT
                            !.buffered_characters = taken.buffered_characters - 1,
                            !.buffered_total = taken.buffered_total - 1]
                    c == Emitted_to_char(alphabet, last.chr)
                IN  [ s |-> t, ret |-> IF c.ok THEN Character(c.chr) ELSE Panic ]
          [] last.tag = "Moment" ->
                [ s   |-> [taken EXCEPT
                             !.buffered_moments = taken.buffered_moments - 1,
                             !.buffered_total = taken.buffered_total - 1,
                             !.last_seen_moment = Some(last.moment)],
                  ret |-> Moment(last.moment) ]
          [] OTHER -> [ s |-> taken, ret |-> Empty ]

(***************************************************************************)
(* Clock builder and emitter.                                              *)
(***************************************************************************)
Clock_new(name) ==
    [kind |-> "Clock", name |-> name, moment_type |-> None, repr |-> None]

Clock_process_command(self, cmd, args) ==
    CASE cmd = "set_moment_type" /\ Len(args) = 1 ->
             [tag |-> "Ok", state |-> [self EXCEPT !.moment_type = Some(args[1])]]
      [] cmd = "set_clock_repr" /\ Len(args) = 1 ->
             [tag |-> "Ok", state |-> [self EXCEPT !.repr = Some(args[1])]]
      [] OTHER -> PanicWith("Clock - unknown command")

\* a clock emitter that does not ask for the moment type
Clock_generate_NoMomentCheck(self) ==
    IF self.repr = None
    THEN Err(<< "Never called set_clock_repr on Clock", self.name >>)
    ELSE OkCode(<< [item |-> "clock",
                    struct_name |-> << "Clock", Pascal(self.name) >>,
                    moment_rep |-> IF self.moment_type = None
                                   THEN "u32" ELSE self.moment_type[1],
                    moment_enum |-> Pascal(self.repr[1]),
                    represents |-> self.repr[1]] >>)

Clock_generate(self) ==
    IF self.repr = None
    THEN Err(<< "Never called set_clock_repr on Clock", self.name >>)
    ELSE IF self.moment_type = None
    THEN Err(<< "Never called set_moment_type on Clock", self.name >>)
    ELSE OkCode(<< [item |-> "clock",
                    struct_name |-> << "Clock", Pascal(self.name) >>,
                    moment_rep |-> self.moment_type[1],
                    moment_enum |-> Pascal(self.repr[1]),
                    represents |-> self.repr[1]] >>)

(***************************************************************************)
(* Program builder and emitter.  instructions is the list of label blocks, *)
(* each a name and the instructions issued under it.                       *)
(***************************************************************************)
\* a builder that starts with a block of its own, named main
Program_new_WithMain(name) ==
    [kind |-> "Program", name |-> name,
     instructions |-> << [name |-> "main", body |-> << >>] >>,
     gateways |-> << >>, exits |-> << >>]

Program_new(name) ==
    [kind |-> "Program", name |-> name, instructions |-> << >>,
     gateways |-> << >>, exits |-> << >>]

Program_process_command(self, cmd, args) ==
    LET opened == IF Len(self.instructions) = 0
                  THEN [self EXCEPT !.instructions =
                                        << [name |-> "root", body |-> << >>] >>]
                  ELSE self
        latest_func == Len(opened.instructions)
        Issue(instr) ==
            [tag |-> "Ok",
             state |-> [opened EXCEPT !.instructions[latest_func].body =
                                          Append(@, instr)]]
        decl == [name |-> args[1], alphabet |-> args[2],
                 clock |-> args[3], buf_size |-> args[4]]
    IN  CASE cmd = "start_moment" /\ Len(args) = 2 ->
                 Issue([op |-> "StartMoment", moment |-> args[1], exit |-> args[2]])
          [] cmd = "reg_gateway" /\ Len(args) = 4 ->
                 [tag |-> "Ok",
                  state |-> [opened EXCEPT !.gateways = Append(@, decl)]]
          [] cmd = "reg_exit" /\ Len(args) = 4 ->
                 [tag |-> "Ok",
                  state |-> [opened EXCEPT !.exits = Append(@, decl)]]
          [] cmd = "reg_exit_gateway" /\ Len(args) = 2 ->
                 Issue([op |-> "ExitGateway", exit |-> args[1], gateway |-> args[2]])
          [] cmd = "label" /\ Len(args) = 1 ->
                 [tag |-> "Ok",
                  state |-> [opened EXCEPT !.instructions =
                                Append(@, [name |-> args[1], body |-> << >>])]]
          [] cmd = "jump_earlier" /\ Len(args) = 3 ->
                 Issue([op |-> "JumpEarlier", label |-> args[1],
                        gateway_a |-> args[2], gateway_b |-> args[3]])
          [] cmd = "jump_later" /\ Len(args) = 3 ->
                 Issue([op |-> "JumpLater", label |-> args[1],
                        gateway_a |-> args[2], gateway_b |-> args[3]])
          [] cmd = "push_moment" /\ Len(args) = 2 ->
                 Issue([op |-> "PushMoment", moment |-> args[1], exit |-> args[2]])
          [] cmd = "forward_moment" /\ Len(args) = 2 ->
                 Issue([op |-> "ForwardMoment", gateway |-> args[1], exit |-> args[2]])
          [] cmd = "push_char" /\ Len(args) = 2 ->
                 Issue([op |-> "PushChar", chr |-> args[1], exit |-> args[2]])
          [] cmd = "push_val" /\ Len(args) = 2 ->
                 Issue([op |-> "PushVal", val |-> args[1], exit |-> args[2]])
          [] cmd = "forward_duration" /\ Len(args) = 2 ->
                 Issue([op |-> "ForwardDuration", gateway |-> args[1], exit |-> args[2]])
          [] cmd = "connect" /\ Len(args) = 2 ->
                 Issue([op |-> "Connect", program |-> args[1], name |-> args[2]])
          [] OTHER -> PanicWith("Program - unknown command")

\* a lookup that takes the first declaration whatever its name
FindDecl_AnyName(decls, name, field) ==
    IF decls = << >> THEN None ELSE Some(decls[1][field])

\* find_map over a list of declarations: the field of the first declaration
\* with the given name, or None
FindDecl(decls, name, field) ==
    LET hits == { i \in 1 .. Len(decls) : decls[i].name = name }
    IN  IF hits = { } THEN None
        ELSE Some(decls[CHOOSE i \in hits : \A j \in hits : i <= j][field])

gateway_field(decl) ==
    [field_name |-> << "gateway", Snake(decl.name) >>,
     alphabet_name |-> << "Alphabet", Pascal(decl.alphabet) >>,
     clock_name |-> << "Clock", Pascal(decl.clock) >>,
     buf_size_lit |-> decl.buf_size]

exit_field(decl) ==
    [field_name |-> << "exit", Snake(decl.name) >>,
     alphabet_name |-> << "Alphabet", Pascal(decl.alphabet) >>,
     clock_name |-> << "Clock", Pascal(decl.clock) >>,
     buf_size_lit |-> decl.buf_size]

\* the statements an instruction is lowered to, or the panic of the emitter
instruction_call(self, instruction) ==
    CASE instruction.op = "StartMoment" ->
             IF TokenStream_parse(instruction.moment).tag = "Err"
             THEN Unwrapped
             ELSE [stmt |-> "set_initial_moment",
                   exit_field |-> << "exit", Snake(instruction.exit) >>,
                   moment_lit |-> instruction.moment]
      [] instruction.op = "PushMoment" ->
             IF TokenStream_parse(instruction.moment).tag = "Err"
             THEN Unwrapped
             ELSE [stmt |-> "push_moment",
                   exit_field |-> << "exit", Snake(instruction.exit) >>,
                   moment_lit |-> instruction.moment]
      [] instruction.op = "ForwardMoment" ->
             [stmt |-> "forward_moment",
              gateway_field |-> << "gateway", Snake(instruction.gateway) >>,
              exit_field |-> << "exit", Snake(instruction.exit) >>]
      [] instruction.op = "PushVal" ->
             LET alphabet == FindDecl(self.exits, instruction.exit, "alphabet")
             IN  IF TokenStream_parse(instruction.val).tag = "Err"
                 THEN Unwrapped
                 ELSE IF alphabet = None
                 THEN PanicWith(<< "Could not find Exit", instruction.exit, self.name >>)
                 ELSE [stmt |-> "push_val",
                       exit_field |-> << "exit", Snake(instruction.exit) >>,
                       alphabet_name |-> << "Alphabet", Pascal(alphabet[1]) >>,
                       val_lit |-> instruction.val]
      [] instruction.op = "PushChar" ->
             LET alphabet == FindDecl(self.exits, instruction.exit, "alphabet")
             IN  IF alphabet = None
                 THEN PanicWith(<< "Could not find Exit", instruction.exit, self.name >>)
                 ELSE [stmt |-> "push_char",
                       exit_field |-> << "exit", Snake(instruction.exit) >>,
                       alphabet_name |-> << "Alphabet", Pascal(alphabet[1]) >>,
                       enum_name |-> Pascal(instruction.chr)]
      [] instruction.op = "ForwardDuration" ->
             [stmt |-> "forward_duration",
              gateway_field |-> << "gateway", Snake(instruction.gateway) >>,
              exit_field |-> << "exit", Snake(instruction.exit) >>]
      [] instruction.op \in { "JumpEarlier", "JumpLater" } ->
             LET clock_a == FindDecl(self.gateways, instruction.gateway_a, "clock")
                 clock_b == FindDecl(self.gateways, instruction.gateway_b, "clock")
             IN  IF clock_a = None
                 THEN PanicWith(<< "Could not find Gateway",
                                   instruction.gateway_a, self.name >>)
                 ELSE IF clock_b = None
                 THEN PanicWith(<< "Could not find Gateway",
                                   instruction.gateway_b, self.name >>)
                 ELSE [stmt |-> IF instruction.op = "JumpEarlier"
                                THEN "jump_earlier" ELSE "jump_later",
                       label_func |-> << "label", Snake(instruction.label) >>,
                       gateway_a_field |-> << "gateway", Snake(instruction.gateway_a) >>,
                       gateway_b_field |-> << "gateway", Snake(instruction.gateway_b) >>,
                       clock_a |-> << "Clock", clock_a[1] >>,
                       clock_b |-> << "Clock", clock_b[1] >>]
      [] OTHER -> [stmt |-> "compile_error"]

func_def(self, block) ==
    [func_name |-> << "label", Snake(block.name) >>,
     body |-> [j \in 1 .. Len(block.body) |-> instruction_call(self, block.body[j])]]

\* the program block made of the lowered label methods funcs, or the first
\* panic met while lowering them
Program_block(self, funcs) ==
    LET calls == UNION { { << f, j >> : j \in 1 .. Len(funcs[f].body) } :
                         f \in 1 .. Len(funcs) }
        panics == { p \in calls : "tag" \in DOMAIN funcs[p[1]].body[p[2]] }
        first == CHOOSE p \in panics :
                     \A q \in panics :
                         p[1] < q[1] \/ (p[1] = q[1] /\ p[2] <= q[2])
    IN  IF \E i \in 1 .. Len(self.gateways \o self.exits) :
               TokenStream_parse((self.gateways \o self.exits)[i].buf_size).tag = "Err"
        THEN Unwrapped
        ELSE IF panics # { }
        THEN funcs[first[1]].body[first[2]]
        ELSE OkCode(<< [item |-> "program",
                        struct_name |-> << "Program", Pascal(self.name) >>,
                        gateways |-> [i \in 1 .. Len(self.gateways) |->
                                         gateway_field(self.gateways[i])],
                        exits |-> [i \in 1 .. Len(self.exits) |->
                                      exit_field(self.exits[i])],
                        funcs |-> funcs] >>)

Program_generate(self) ==
    Program_block(self, [i \in 1 .. Len(self.instructions) |->
                            func_def(self, self.instructions[i])])

(***************************************************************************)
(* The dispatcher state and the Parser.                                    *)
(***************************************************************************)
General == [kind |-> "General"]

State_generate(self) ==
    CASE self.kind = "General" -> OkCode(<< >>)
      [] self.kind = "Alphabet" -> Alphabet_generate(self)
      [] self.kind = "Clock" -> Clock_generate(self)
      [] self.kind = "Program" -> Program_generate(self)

\* a General state that ignores the commands it does not know
State_process_command_Lenient(self, cmd, args) ==
    CASE self.kind = "General" -> [tag |-> "Ok", state |-> self]
      [] self.kind = "Alphabet" -> Alphabet_process_command(self, cmd, args)
      [] self.kind = "Clock" -> Clock_process_command(self, cmd, args)
      [] self.kind = "Program" -> Program_process_command(self, cmd, args)

State_process_command(self, cmd, args) ==
    CASE self.kind = "General" -> PanicWith("General - Unknown command")
      [] self.kind = "Alphabet" -> Alphabet_process_command(self, cmd, args)
      [] self.kind = "Clock" -> Clock_process_command(self, cmd, args)
      [] self.kind = "Program" -> Program_process_command(self, cmd, args)

Parser_new == [state |-> General, source |-> << >>, lineno |-> 0]

\* a start_state that puts the emitted text in front of the output buffer
start_state_match_Prepend(self, state, generated) ==
    IF generated.tag = "Ok"
    THEN [tag |-> "Ok",
          parser |-> [self EXCEPT !.source = generated.code \o << Newline >> \o @,
                                  !.state = state]]
    ELSE [tag |-> "Panic",
          msg |-> IF generated.tag = "Err"
                  THEN << "Error generating code", generated.err >>
                  ELSE generated.msg,
          parser |-> self]

\* the match of Parser::start_state on what the emitter of the current
\* section returned: the parser it leaves and, when the emitter failed,
\* the panic
start_state_match(self, state, generated) ==
    IF generated.tag = "Ok"
    THEN [tag |-> "Ok",
          parser |-> [self EXCEPT !.source = @ \o generated.code \o << Newline >>,
                                  !.state = state]]
    ELSE [tag |-> "Panic",
          msg |-> IF generated.tag = "Err"
                  THEN << "Error generating code", generated.err >>
                  ELSE generated.msg,
          parser |-> self]

start_state(self, state) ==
    start_state_match(self, state, State_generate(self.state))

\* the three section arms of the match in parse_line, and the state that
\* each of them constructs
IsSectionCommand(line) ==
    /\ line.cmd \in { "defalphabet", "defclock", "defprogram" }
    /\ Len(line.args) = 1

State_for(line) ==
    CASE line.cmd = "defalphabet" -> Alphabet_new(line.args[1])
      [] line.cmd = "defclock" -> Clock_new(line.args[1])
      [] line.cmd = "defprogram" -> Program_new(line.args[1])

\* the last arm of the match in parse_line: r is what the builder of the
\* current section made of the command
process_command_arm(self, r) ==
    IF r.tag = "Ok"
    THEN [tag |-> "Ok", parser |-> [self EXCEPT !.state = r.state]]
    ELSE [tag |-> "Panic", msg |-> r.msg, parser |-> self]

\* self.lineno += 1
IncLineno(self) == [self EXCEPT !.lineno = @ + 1]

parse_line(self, line) ==
    IF line.form = "command"
    THEN IF line.args = << >>
         THEN [tag |-> "Panic", msg |-> "no group named 'args'",
               parser |-> IncLineno(self)]
         ELSE IF IsSectionCommand(line)
         THEN start_state(IncLineno(self), State_for(line))
         ELSE process_command_arm(
                  IncLineno(self),
                  State_process_command(self.state, line.cmd, line.args))
    ELSE [tag |-> "Ok", parser |-> IncLineno(self)]

\* the base code that Parser::generate puts before the emitted sections
Preamble ==
    << [item |-> "header"], Newline, [item |-> "alphabet_base"], Newline,
       [item |-> "clock_base"], Newline, [item |-> "stream_base"], Newline >>

Parser_generate(self) == OkCode(Preamble \o self.source)

(***************************************************************************)
(* The emitted program at run time.  A machine is an instance of the       *)
(* emitted program struct: its label methods (funcs), its gateway and exit *)
(* streams by field name, the representation tags of the emitted clock     *)
(* types, the emitted alphabets by type name and the alphabet type of each *)
(* stream, the method being run and the position in it (func = 0 when none *)
(* is run), the number of label methods entered and not yet returned from  *)
(* (depth) and the statements executed so far (trace).                     *)
(***************************************************************************)
\* no program instance
NoMachine ==
    [funcs |-> << >>, streams |-> << >>, tags |-> << >>,
     alphabets |-> << >>, alphabet_of |-> << >>,
     func |-> 0, ip |-> 0, depth |-> 0, trace |-> << >>]

\* the match of a lowered jump on the current moments a and b of its two
\* gateways: TRUE when the jump is taken
JumpCondition_OrEqual(stmt, a, b) ==
    IF stmt = "jump_earlier"
    THEN (a = None /\ b # None) \/ (a # None /\ b # None /\ a[1] <= b[1])
    ELSE (a # None /\ b = None) \/ (a # None /\ b # None /\ a[1] >= b[1])

JumpCondition(stmt, a, b) ==
    IF stmt = "jump_earlier"
    THEN (a = None /\ b # None) \/ (a # None /\ b # None /\ a[1] < b[1])
    ELSE (a # None /\ b = None) \/ (a # None /\ b # None /\ a[1] > b[1])

IsJumpStatement(stmt) == stmt.stmt \in { "jump_earlier", "jump_later" }

\* index of the label method with the given name
FuncIndex(funcs, name) == CHOOSE g \in 1 .. Len(funcs) : funcs[g].func_name = name

\* the entry that the execution of the statement at the position of m adds
\* to the trace
Executed(m, taken) ==
    Append(m.trace, [depth |-> m.depth, func |-> m.func, ip |-> m.ip, taken |-> taken])

\* a Pushed that drops the item the exit refuses and goes on
Pushed_Dropping(m, popped, field, r, advance) ==
    [pc |-> "running",
     machine |-> [popped EXCEPT !.streams[field] = r.s,
                                !.ip = @ + advance,
                                !.trace = IF advance = 0 THEN @
                                          ELSE Executed(m, FALSE)]]

\* .expect(...) on what a push onto the exit returned, r: the statement
\* of machine m, whose streams were last seen as in popped, goes on by
\* advance statements, or panics
Pushed(m, popped, field, r, advance) ==
    IF r.ret = Ok
    THEN [pc |-> "running",
          machine |-> [popped EXCEPT !.streams[field] = r.s,
                                     !.ip = @ + advance,
                                     !.trace = IF advance = 0 THEN @
                                               ELSE Executed(m, FALSE)]]
    ELSE [pc |-> "panic",
          machine |-> [popped EXCEPT !.trace = Executed(m, FALSE)]]

\* push_val: c is what to_char made of the value; .expect(...) on it, then
\* the push
PushedVal(m, stmt, c) ==
    IF c.ok
    THEN Pushed(m, m, stmt.exit_field,
                push_in(m.alphabets[m.alphabet_of[stmt.exit_field]],
                        m.streams[stmt.exit_field], c.chr), 1)
    ELSE [pc |-> "panic", machine |-> [m EXCEPT !.trace = Executed(m, FALSE)]]

\* one iteration of the loop of forward_duration: p is what the pop of the
\* gateway returned
Forwarded_item(m, stmt, p) ==
    CASE p.ret.tag = "Character" ->
             Pushed(m, [m EXCEPT !.streams[stmt.gateway_field] = p.s],
                    stmt.exit_field,
                    push_in(m.alphabets[m.alphabet_of[stmt.exit_field]],
                            m.streams[stmt.exit_field], p.ret.chr), 0)
      [] p.ret.tag = "Moment" ->
             Pushed(m, [m EXCEPT !.streams[stmt.gateway_field] = p.s],
                    stmt.exit_field,
                    push_moment(m.streams[stmt.exit_field], p.ret.moment), 1)
      [] p.ret.tag = "Empty" ->
             [pc |-> "running",
              machine |-> [m EXCEPT !.streams[stmt.gateway_field] = p.s]]
      [] OTHER ->
             [pc |-> "panic",
              machine |-> [m EXCEPT !.streams[stmt.gateway_field] = p.s,
                                    !.trace = Executed(m, FALSE)]]

\* lowered jumps without the comparison of the representation tags
Statement_NoGuard(m, stmt) ==
    CASE stmt.stmt = "set_initial_moment" ->
             [pc |-> "running",
              machine |-> [m EXCEPT !.streams[stmt.exit_field] =
                                        set_initial_moment(@, Lit(stmt.moment_lit)).s,
                                    !.ip = @ + 1,
                                    !.trace = Executed(m, FALSE)]]
      [] IsJumpStatement(stmt) ->
             IF JumpCondition(stmt.stmt,
                              current_moment(m.streams[stmt.gateway_a_field]),
                              current_moment(m.streams[stmt.gateway_b_field]))
             THEN [pc |-> "running",
                   machine |-> [m EXCEPT !.func = FuncIndex(m.funcs, stmt.label_func),
                                         !.ip = 1,
                                         !.depth = @ + 1,
                                         !.trace = Executed(m, TRUE)]]
             ELSE [pc |-> "running",
                   machine |-> [m EXCEPT !.ip = @ + 1,
                                         !.trace = Executed(m, FALSE)]]

\* the statement stmt at the position of m is executed
Statement(m, stmt) ==
    CASE stmt.stmt = "set_initial_moment" ->
             [pc |-> "running",
              machine |-> [m EXCEPT !.streams[stmt.exit_field] =
                                        set_initial_moment(@, Lit(stmt.moment_lit)).s,
                                    !.ip = @ + 1,
                                    !.trace = Executed(m, FALSE)]]
      [] IsJumpStatement(stmt) ->
             IF m.tags[stmt.clock_a] # m.tags[stmt.clock_b]
             THEN [pc |-> "panic",
                   machine |-> [m EXCEPT !.trace = Executed(m, FALSE)]]
             ELSE IF JumpCondition(stmt.stmt,
                                   current_moment(m.streams[stmt.gateway_a_field]),
                                   current_moment(m.streams[stmt.gateway_b_field]))
             THEN [pc |-> "running",
                   machine |-> [m EXCEPT !.func = FuncIndex(m.funcs, stmt.label_func),
                                         !.ip = 1,
                                         !.depth = @ + 1,
                                         !.trace = Executed(m, TRUE)]]
             ELSE [pc |-> "running",
                   machine |-> [m EXCEPT !.ip = @ + 1,
                                         !.trace = Executed(m, FALSE)]]
      [] stmt.stmt = "push_moment" ->
             Pushed(m, m, stmt.exit_field,
                    push_moment(m.streams[stmt.exit_field], Lit(stmt.moment_lit)), 1)
      [] stmt.stmt = "push_char" ->
             Pushed(m, m, stmt.exit_field,
                    push_in(m.alphabets[m.alphabet_of[stmt.exit_field]],
                            m.streams[stmt.exit_field], stmt.enum_name), 1)
      [] stmt.stmt = "push_val" ->
             PushedVal(m, stmt,
                       Emitted_to_char(m.alphabets[stmt.alphabet_name], Lit(stmt.val_lit)))
      [] stmt.stmt = "forward_duration" ->
             Forwarded_item(m, stmt,
                            pop_in(m.alphabets[m.alphabet_of[stmt.gateway_field]],
                                   m.streams[stmt.gateway_field]))

\* a label method that runs on into the method emitted after it
label_step_FallThrough(m) ==
    IF m.ip > Len(m.funcs[m.func].body)
    THEN IF m.func < Len(m.funcs)
         THEN [pc |-> "running", machine |-> [m EXCEPT !.func = @ + 1, !.ip = 1]]
         ELSE [pc |-> "returned", machine |-> [m EXCEPT !.func = 0, !.ip = 0, !.depth = 0]]
    ELSE Statement(m, m.funcs[m.func].body[m.ip])

\* one step of the label method that m is running: the statement at the
\* position is executed, or, past the last statement, the method returns and
\* with it every method that entered it by return self.label_X()
label_step(m) ==
    IF m.ip > Len(m.funcs[m.func].body)
    THEN [pc |-> "returned", machine |-> [m EXCEPT !.func = 0, !.ip = 0, !.depth = 0]]
    ELSE Statement(m, m.funcs[m.func].body[m.ip])

(***************************************************************************)
(* State.  gateway and exit are the two streams; call and ret record the   *)
(* operation performed last and what it returned; pc is the position of    *)
(* the caller; run records the current run of consecutive push calls and   *)
(* the pops that follow it; preload is the sequence of items the gateway   *)
(* was loaded with before forward_duration; live lists the cells of the    *)
(* gateway that hold an item pushed and not yet popped, oldest first.      *)
(* run and live are kept only when run.on.  parser is the Parser record,   *)
(* fed the source lines that main has passed to parse_line so far, and     *)
(* machine the instance of an emitted program.                             *)
(***************************************************************************)
VARIABLES gateway, exit, call, ret, pc, run, preload, live, parser, fed, machine

vars == << gateway, exit, call, ret, pc, run, preload, live, parser, fed, machine >>

NoRun(on) == [on |-> on, idx0 |-> 0, pushes |-> 0, refused |-> FALSE, pops |-> 0]

\* a push or push_moment call on stream s that returned r
RunPush(s, r) ==
    IF ~run.on THEN run
    ELSE IF run.pushes = 0 \/ run.pops > 0
         THEN [on |-> TRUE, idx0 |-> s.idx, pushes |-> 1,
               refused |-> (r # Ok), pops |-> 0]
         ELSE [run EXCEPT !.pushes = IF run.pushes > s.BUFFER_SIZE
                                     THEN run.pushes ELSE run.pushes + 1,
                          !.refused = run.refused \/ (r # Ok)]

\* a pop call on stream s
RunPop(s) ==
    IF ~run.on \/ run.pushes = 0 THEN run
    ELSE IF run.pops < s.BUFFER_SIZE
         THEN [run EXCEPT !.pops = run.pops + 1]
         ELSE NoRun(TRUE)

Without(seq, i) == SelectSeq(seq, LAMBDA j : j # i)

\* a push or push_moment call that found the cursor of s at its idx and returned r
LivePush(s, r) ==
    IF run.on /\ r = Ok THEN Append(Without(live, s.idx), s.idx) ELSE live

\* a pop call that found the cursor of s at its idx
LivePop(s) == IF run.on THEN Without(live, s.idx) ELSE live

(***************************************************************************)
(* The Stream API: a caller owns one stream and calls its operations in    *)
(* any order with any arguments.                                           *)
(***************************************************************************)
Init ==
    /\ gateway \in { new(n) : n \in 1 .. MaxBufferSize }
    /\ exit = new(1)
    /\ call = [op |-> "new"]
    /\ ret = Unit
    /\ pc = "api"
    /\ run = NoRun(FALSE)
    /\ preload = << >>
    /\ live = << >>
    /\ parser = Parser_new
    /\ fed = << >>
    /\ machine = NoMachine

InitCursor ==
    /\ gateway \in { new(n) : n \in 1 .. MaxCursorSize }
    /\ exit = new(1)
    /\ call = [op |-> "new"]
    /\ ret = Unit
    /\ pc = "api"
    /\ run = NoRun(TRUE)
    /\ preload = << >>
    /\ live = << >>
    /\ parser = Parser_new
    /\ fed = << >>
    /\ machine = NoMachine

SetInitialMoment ==
    \E m \in Moments :
        LET r == set_initial_moment(gateway, m)
        IN  /\ pc = "api"
            /\ gateway' = r.s
            /\ call' = [op |-> "set_initial_moment", moment |-> m]
            /\ ret' = r.ret
            /\ run' = NoRun(run.on)
            /\ UNCHANGED << exit, pc, preload, live, parser, fed, machine >>

Push ==
    \E c \in CharEnum :
        LET r == push(gateway, c)
        IN  /\ pc = "api"
            /\ gateway' = r.s
            /\ call' = [op |-> "push", chr |-> c]
            /\ ret' = r.ret
            /\ run' = RunPush(gateway, r.ret)
            /\ live' = LivePush(gateway, r.ret)
            /\ UNCHANGED << exit, pc, preload, parser, fed, machine >>

PushMoment ==
    \E m \in Moments :
        LET r == push_moment(gateway, m)
        IN  /\ pc = "api"
            /\ gateway' = r.s
            /\ call' = [op |-> "push_moment", moment |-> m]
            /\ ret' = r.ret
            /\ run' = RunPush(gateway, r.ret)
            /\ live' = LivePush(gateway, r.ret)
            /\ UNCHANGED << exit, pc, preload, parser, fed, machine >>

Pop ==
    LET r == pop(gateway)
    IN  /\ pc = "api"
        /\ gateway' = r.s
        /\ call' = [op |-> "pop"]
        /\ ret' = r.ret
        /\ run' = RunPop(gateway)
        /\ live' = LivePop(gateway)
        /\ UNCHANGED << exit, pc, preload, parser, fed, machine >>

Next == SetInitialMoment \/ Push \/ PushMoment \/ Pop

Spec == Init /\ [][Next]_vars

SpecCursor == InitCursor /\ [][Next]_vars

(***************************************************************************)
(* forward_duration.  The gateway is a new stream onto which a sequence of *)
(* items was pushed; the exit is a new stream.                             *)
(***************************************************************************)
PreloadItems == { Character(c) : c \in CharEnum } \cup { Moment(m) : m \in Moments }

Preloads == UNION { [1 .. n -> PreloadItems] : n \in 1 .. MaxPreload }

\* the stream s after pushing the named items of the sequence its, in order
RECURSIVE Load(_, _)
Load(s, its) ==
    IF its = << >> THEN s
    ELSE Load(IF Head(its).tag = "Character"
              THEN push(s, Head(its).chr).s
              ELSE push_moment(s, Head(its).moment).s,
              Tail(its))

InitForward(start) ==
    /\ preload \in Preloads
    /\ \E slack \in 0 .. 1 :
          gateway = Load(new(Len(preload) + slack), preload)
    /\ exit \in { new(n) : n \in 1 .. MaxExitSize }
    /\ call = [op |-> "new"]
    /\ ret = Unit
    /\ pc = start
    /\ run = NoRun(FALSE)
    /\ live = << >>
    /\ parser = Parser_new
    /\ fed = << >>
    /\ machine = NoMachine

\* GatewayLike::forward_duration of Stream: one evaluation of the while
\* condition and, when it holds, one run of the loop body
ForwardDuration ==
    /\ pc = "method"
    /\ IF next_is_character(gateway)
       THEN LET p == pop(gateway)
            IN  /\ gateway' = p.s
                /\ call' = [op |-> "pop"]
                /\ IF p.ret.tag = "Character"
                   THEN LET e == push(exit, p.ret.chr)
                        IN  /\ exit' = e.s
                            /\ IF e.ret = Ok
                               THEN /\ ret' = p.ret
                                    /\ pc' = "method"
                               ELSE /\ ret' = e.ret
                                    /\ pc' = "returned"
                   ELSE /\ exit' = exit
                        /\ ret' = Panic
                        /\ pc' = "panic"
       ELSE /\ ret' = Ok
            /\ pc' = "returned"
            /\ call' = [op |-> "return"]
            /\ UNCHANGED << gateway, exit >>
    /\ UNCHANGED << run, preload, live, parser, fed, machine >>

\* the lowered loop without the break after the moment
LoweredForwardDuration_NoBreak ==
    /\ pc = "lowered"
    /\ LET p == pop(gateway)
       IN  /\ gateway' = p.s
           /\ call' = [op |-> "pop"]
           /\ CASE p.ret.tag = "Character" ->
                     LET e == push(exit, p.ret.chr)
                     IN  /\ exit' = e.s
                         /\ ret' = IF e.ret = Ok THEN p.ret ELSE Panic
                         /\ pc' = IF e.ret = Ok THEN "lowered" ELSE "panic"
                [] p.ret.tag = "Moment" ->
                     LET e == push_moment(exit, p.ret.moment)
                     IN  /\ exit' = e.s
                         /\ ret' = IF e.ret = Ok THEN p.ret ELSE Panic
                         /\ pc' = IF e.ret = Ok THEN "lowered" ELSE "panic"
                [] p.ret.tag = "Empty" ->
                     /\ exit' = exit
                     /\ ret' = p.ret
                     /\ pc' = "lowered"
                [] OTHER ->
                     /\ exit' = exit
                     /\ ret' = Panic
                     /\ pc' = "panic"
    /\ UNCHANGED << run, preload, live, parser, fed, machine >>

\* the lowered instruction forward_duration G,E: one iteration of the loop
LoweredForwardDuration ==
    /\ pc = "lowered"
    /\ LET p == pop(gateway)
       IN  /\ gateway' = p.s
           /\ call' = [op |-> "pop"]
           /\ CASE p.ret.tag = "Character" ->
                     LET e == push(exit, p.ret.chr)
                     IN  /\ exit' = e.s
                         /\ ret' = IF e.ret = Ok THEN p.ret ELSE Panic
                         /\ pc' = IF e.ret = Ok THEN "lowered" ELSE "panic"
                [] p.ret.tag = "Moment" ->
                     LET e == push_moment(exit, p.ret.moment)
                     IN  /\ exit' = e.s
                         /\ ret' = IF e.ret = Ok THEN p.ret ELSE Panic
                         /\ pc' = IF e.ret = Ok THEN "done" ELSE "panic"
                [] p.ret.tag = "Empty" ->
                     /\ exit' = exit
                     /\ ret' = p.ret
                     /\ pc' = "lowered"
                [] OTHER ->
                     /\ exit' = exit
                     /\ ret' = Panic
                     /\ pc' = "panic"
    /\ UNCHANGED << run, preload, live, parser, fed, machine >>

InitMethod == InitForward("method")

NextMethod == ForwardDuration

SpecForward == InitMethod /\ [][NextMethod]_vars

InitLowered == InitForward("lowered")

NextLowered == LoweredForwardDuration

SpecLowered == InitLowered /\ [][NextLowered]_vars

\* most items pushed onto the gateway before the loop that runs to its end
MaxLoopPreload == 3

LoopPreloads == UNION { [1 .. n -> PreloadItems] : n \in 1 .. MaxLoopPreload }

InitLoweredFair ==
    /\ preload \in LoopPreloads
    /\ \E slack \in 0 .. 1 :
          gateway = Load(new(Len(preload) + slack), preload)
    /\ exit \in { new(n) : n \in 1 .. MaxExitSize }
    /\ call = [op |-> "new"]
    /\ ret = Unit
    /\ pc = "lowered"
    /\ run = NoRun(FALSE)
    /\ live = << >>
    /\ parser = Parser_new
    /\ fed = << >>
    /\ machine = NoMachine

\* the emitted loop is sequential code: while it is in the loop it makes
\* its next iteration
SpecLoweredFair ==
    InitLoweredFair /\ [][NextLowered]_vars /\ WF_vars(LoweredForwardDuration)


(***************************************************************************)
(* Properties of the Stream API (specification Spec).                      *)
(***************************************************************************)

\* C1: in every reachable Stream state, refused pushes and pops that
\* surface Empty included, buffered_characters + buffered_moments equals
\* buffered_total.
CounterLaw ==
    gateway.buffered_characters + gateway.buffered_moments = gateway.buffered_total

\* a pop has surfaced Empty while items of both kinds were buffered
CounterLawWitness ==
    /\ call.op = "pop"
    /\ ret = Empty
    /\ gateway.buffered_characters >= 1
    /\ gateway.buffered_moments >= 1

\* C2: a pop issued directly after a successful push(c) returns
\* Character(c).
PushPopRoundTrip ==
    [][ (call.op = "push" /\ ret = Ok /\ call'.op = "pop")
            => ret' = Character(call.chr) ]_vars

\* C3: whenever the stream holds a pushed and not yet popped item, the
\* cursor idx is at the cell of the oldest such item.
CursorAtOldest ==
    live # << >> => gateway.idx = Head(live)

\* C4: push and push_moment on a stream whose buffered_total equals
\* BUFFER_SIZE return BufferFull and leave every field of the stream as it
\* was; on a new stream of capacity 2 the first two of three pushes succeed,
\* the third is refused and (buffered_characters, buffered_total) is (2, 2).
FullPushRefused ==
    /\ gateway.buffered_total = gateway.BUFFER_SIZE =>
          /\ \A c \in CharEnum : push(gateway, c) = [s |-> gateway, ret |-> BufferFull]
          /\ \A m \in Moments :
                push_moment(gateway, m) = [s |-> gateway, ret |-> BufferFull]
    /\ \A c1, c2, c3 \in CharEnum :
          LET p1 == push(new(2), c1)
              p2 == push(p1.s, c2)
              p3 == push(p2.s, c3)
          IN  /\ p1.ret = Ok
              /\ p2.ret = Ok
              /\ p3.ret = BufferFull
              /\ p3.s = p2.s
              /\ p3.s.buffered_characters = 2
              /\ p3.s.buffered_total = 2

\* a push was refused by a capacity-2 stream that holds two characters
FullPushRefusedWitness ==
    /\ call.op = "push"
    /\ ret = BufferFull
    /\ gateway.BUFFER_SIZE = 2
    /\ gateway.buffered_characters = 2
    /\ gateway.buffered_total = 2

\* C5: in every reachable Stream state buffered_total <= BUFFER_SIZE.
TotalWithinCapacity ==
    gateway.buffered_total <= gateway.BUFFER_SIZE

\* a push_moment was attempted on a stream filled to its capacity
TotalWithinCapacityWitness ==
    /\ call.op = "push_moment"
    /\ ret = BufferFull
    /\ gateway.buffered_total = gateway.BUFFER_SIZE
    /\ gateway.BUFFER_SIZE = MaxBufferSize

(***************************************************************************)
(* Properties of the cursor (specification SpecCursor).                    *)
(***************************************************************************)

\* C6 as stated: after BUFFER_SIZE push calls followed by BUFFER_SIZE pops,
\* idx equals the value it had before the first of those pushes.
CursorReturns ==
    (run.pushes = gateway.BUFFER_SIZE /\ run.pops = gateway.BUFFER_SIZE)
        => gateway.idx = run.idx0

\* C6 amended: after BUFFER_SIZE push calls none of which was refused,
\* followed by BUFFER_SIZE pops, idx equals the value it had before the
\* first of those pushes.
CursorReturnsAfterAcceptedPushes ==
    (run.pushes = gateway.BUFFER_SIZE /\ ~run.refused
        /\ run.pops = gateway.BUFFER_SIZE)
        => gateway.idx = run.idx0

\* two accepted pushes and two pops on a capacity-2 stream whose cursor was
\* at cell 1
CursorReturnsWitness ==
    /\ gateway.BUFFER_SIZE = 2
    /\ run.pushes = 2
    /\ ~run.refused
    /\ run.pops = 2
    /\ run.idx0 = 1

\* C7 as stated: every call of push, push_moment or pop changes idx to
\* (idx + 1) mod BUFFER_SIZE.
EveryCallAdvances ==
    [][ call'.op \in {"push", "push_moment", "pop"}
            => gateway'.idx = (gateway.idx + 1) % gateway.BUFFER_SIZE ]_vars

\* C7 amended: every accepted push or push_moment and every pop changes idx
\* to (idx + 1) mod BUFFER_SIZE, a refused push leaves idx as it was, and idx
\* always stays in 0..BUFFER_SIZE-1.
AcceptedCallAdvances ==
    /\ [](gateway.idx \in 0 .. (gateway.BUFFER_SIZE - 1))
    /\ [][ /\ (call'.op \in {"push", "push_moment"} /\ ret' = Ok)
                => gateway'.idx = (gateway.idx + 1) % gateway.BUFFER_SIZE
           /\ call'.op = "pop"
                => gateway'.idx = (gateway.idx + 1) % gateway.BUFFER_SIZE
           /\ (call'.op \in {"push", "push_moment"} /\ ret' = BufferFull)
                => gateway'.idx = gateway.idx ]_vars

\* an accepted push has wrapped the cursor of a capacity-3 stream to cell 0
AcceptedCallAdvancesWitness ==
    /\ call.op = "push"
    /\ ret = Ok
    /\ gateway.BUFFER_SIZE = 3
    /\ gateway.idx = 0

\* C8: last_seen_moment becomes the argument in set_initial_moment and the
\* moment taken in a pop of a Moment cell; push, push_moment, accepted or
\* refused, and pops of Character or Empty cells leave it as it was.
LastSeenMomentFrame ==
    [][ /\ call'.op = "set_initial_moment"
             => gateway'.last_seen_moment = Some(call'.moment)
        /\ (call'.op = "pop" /\ ret'.tag = "Moment")
             => gateway'.last_seen_moment = Some(ret'.moment)
        /\ (call'.op \in {"push", "push_moment"}
               \/ (call'.op = "pop" /\ ret'.tag # "Moment"))
             => gateway'.last_seen_moment = gateway.last_seen_moment ]_vars

\* a pop has taken Moment(1) from a stream that still buffers a moment
LastSeenMomentWitness ==
    /\ call.op = "pop"
    /\ ret = Moment(1)
    /\ gateway.last_seen_moment = Some(1)
    /\ gateway.buffered_moments >= 1

(***************************************************************************)
(* Properties of forward_duration.                                         *)
(***************************************************************************)

\* the stored form of a pushed item: a character is stored as its value
Raw(item) ==
    IF item.tag = "Character" THEN Character(to_val(item.chr)) ELSE item

IsMoment(item) == item.tag = "Moment"

HasMoment(its) == \E i \in 1 .. Len(its) : IsMoment(its[i])

\* position of the first Moment of its
FirstMoment(its) ==
    CHOOSE i \in 1 .. Len(its) :
        IsMoment(its[i]) /\ \A j \in 1 .. (i - 1) : ~IsMoment(its[j])

\* the exit holds exactly the items its, in order from cell 0
ExitHolds(its) ==
    /\ \A i \in 0 .. (exit.BUFFER_SIZE - 1) :
          exit.buffer[i] = IF i < Len(its) THEN Raw(its[i + 1]) ELSE Empty
    /\ exit.buffered_total = Len(its)
    /\ exit.buffered_moments = 1
    /\ exit.buffered_characters = Len(its) - 1

\* the gateway holds exactly the items its, in order from its cursor
GatewayHolds(its) ==
    /\ \A j \in 0 .. (gateway.BUFFER_SIZE - 1) :
          gateway.buffer[(gateway.idx + j) % gateway.BUFFER_SIZE] =
              IF j < Len(its) THEN Raw(its[j + 1]) ELSE Empty
    /\ gateway.buffered_total = Len(its)

\* the lowered forward_duration has not aborted; while it loops the first
\* moment is still in the gateway, ahead of the cursor; once it has left its
\* loop, the characters before the first moment and that moment are on the
\* exit, in order, and the items after it are in the gateway, the first of
\* them at the cursor
Forwarded ==
    LET k == FirstMoment(preload)
    IN  /\ pc # "panic"
        /\ pc = "lowered" =>
              /\ \E i \in DOMAIN gateway.buffer : gateway.buffer[i] = preload[k]
              /\ gateway.last_seen_moment = None
              /\ exit.buffered_moments = 0
        /\ pc = "done" =>
              /\ ExitHolds(SubSeq(preload, 1, k))
              /\ GatewayHolds(SubSeq(preload, k + 1, Len(preload)))
              /\ gateway.last_seen_moment = Some(preload[k].moment)

\* C9 as stated: forward_duration G,E on a gateway pre-loaded with
\* characters c1..ck, a Moment m and further items moves c1..ck and then m,
\* in that order, onto exit E and stops; the further items remain in G, the
\* first of them at G's cursor.
LoweredForwardMoves ==
    HasMoment(preload) => Forwarded

\* C9 amended: the same, provided exit E has room for the k + 1 items;
\* otherwise the instruction aborts at the first refused push.
LoweredForwardMovesWithRoom ==
    (HasMoment(preload) /\ exit.BUFFER_SIZE >= FirstMoment(preload))
        => Forwarded

\* the gateway was loaded with three characters, a moment and a character,
\* and the lowered loop has ended at its break
LoweredForwardWitness ==
    /\ pc = "done"
    /\ Len(preload) = 5
    /\ FirstMoment(preload) = 4
    /\ preload[5].tag = "Character"
    /\ gateway.BUFFER_SIZE = 6
    /\ next_is_character(gateway)

MomentCells(s) == { i \in DOMAIN s.buffer : s.buffer[i].tag = "Moment" }

\* C10: Stream::forward_duration pops only Character cells, returns Ok
\* exactly when it finds a cell that is not a Character at the cursor, never
\* panics, and leaves the gateway's last_seen_moment, buffered_moments and
\* Moment cells as they were.
MethodPopsOnlyCharacters ==
    [][ pc = "method" =>
          /\ gateway' # gateway =>
                /\ next_is_character(gateway)
                /\ gateway' = pop(gateway).s
                /\ pop(gateway).ret.tag = "Character"
          /\ (pc' = "returned" /\ ret' = Ok) <=> ~next_is_character(gateway)
          /\ (pc' = "returned" /\ ret' = Ok) => gateway' = gateway
          /\ pc' # "panic"
          /\ gateway'.last_seen_moment = gateway.last_seen_moment
          /\ gateway'.buffered_moments = gateway.buffered_moments
          /\ MomentCells(gateway') = MomentCells(gateway)
          /\ \A i \in MomentCells(gateway) : gateway'.buffer[i] = gateway.buffer[i] ]_vars

\* the method has forwarded two characters and has returned Ok with a
\* Moment at the cursor
MethodWitness ==
    /\ pc = "returned"
    /\ ret = Ok
    /\ next_is_moment(gateway)
    /\ gateway.buffered_moments >= 1
    /\ exit.buffered_characters = 2

(***************************************************************************)
(* main: a Parser is constructed, the lines of the source are passed to    *)
(* parse_line one by one, and generate is called after the last of them.   *)
(* A panic ends the process.  The source is any sequence of at most        *)
(* MaxLines lines drawn from the vocabulary of the specification.          *)
(***************************************************************************)
\* longest source file
MaxLines == 6

InitParser ==
    /\ parser = Parser_new
    /\ fed = << >>
    /\ call = [op |-> "new"]
    /\ ret = Unit
    /\ pc = "main"
    /\ gateway = new(1)
    /\ exit = new(1)
    /\ run = NoRun(FALSE)
    /\ preload = << >>
    /\ live = << >>
    /\ machine = NoMachine

ParseLine(line) ==
    /\ pc = "main"
    /\ Len(fed) < MaxLines
    /\ \E r \in { parse_line(parser, line) } :
           /\ parser' = r.parser
           /\ ret' = IF r.tag = "Ok" THEN Unit ELSE PanicWith(r.msg)
           /\ pc' = IF r.tag = "Ok" THEN "main" ELSE "panic"
    /\ fed' = Append(fed, line)
    /\ call' = [op |-> "parse_line", line |-> line]
    /\ UNCHANGED << gateway, exit, run, preload, live, machine >>

Generate ==
    /\ pc = "main"
    /\ call' = [op |-> "generate"]
    /\ ret' = Parser_generate(parser)
    /\ pc' = "generated"
    /\ UNCHANGED << gateway, exit, run, preload, live, parser, fed, machine >>

\* the three section commands
DefLines ==
    { Command("defalphabet", << "ASCII" >>),
      Command("defclock", << "counter_clock" >>),
      Command("defprogram", << "sync2" >>) }

\* sources of sections: the section commands, one command of each builder,
\* a comment, a line that matches no pattern, a command without arguments
\* and a section command with two arguments
DispatchLines ==
    DefLines \cup
    { Command("set_char_type", << "u8" >>),
      Command("set_moment_type", << "u32" >>),
      Command("set_clock_repr", << "QUANTITY" >>),
      Command("defclock", << "counter_clock", "u32" >>),
      Command("set_char_type", << >>),
      Comment, Unmatched }

ParseDispatchLine == \E line \in DispatchLines : ParseLine(line)

NextParser == ParseDispatchLine \/ Generate

SpecParser == InitParser /\ [][NextParser]_vars

\* sources of alphabets
AlphabetLines ==
    { Command("defalphabet", << "ASCII" >>),
      Command("set_char_type", << "u8" >>),
      Command("set_char_type", << "u16" >>),
      Command("def_char", << "0x41", "A_UPPERCASE" >>),
      Command("def_char", << "0x41", "B_UPPERCASE" >>),
      Command("def_char", << "0x42", "A_UPPERCASE" >>),
      Command("defclock", << "counter_clock" >>) }

ParseAlphabetLine == \E line \in AlphabetLines : ParseLine(line)

NextAlphabet == ParseAlphabetLine \/ Generate

SpecAlphabet == InitParser /\ [][NextAlphabet]_vars

\* sources of programs
ProgramLines ==
    { Command("defprogram", << "sync2" >>),
      Command("reg_gateway", << "A", "ASCII", "CounterClock", "0x50" >>),
      Command("reg_gateway", << "B", "ASCII", "CounterClock", "0x50" >>),
      Command("label", << "a_earlier" >>),
      Command("jlt", << "a_earlier", "Time(A)", "Time(B)" >>),
      Command("jgt", << "a_earlier", "Time(A)", "Time(B)" >>),
      Command("jump_earlier", << "a_earlier", "A", "B" >>),
      Command("defclock", << "counter_clock" >>) }

ParseProgramLine == \E line \in ProgramLines : ParseLine(line)

NextProgram == ParseProgramLine \/ Generate

SpecProgram == InitParser /\ [][NextProgram]_vars

(***************************************************************************)
(* Properties of the dispatcher (specification SpecParser).                *)
(***************************************************************************)
\* the line is one of the three section commands with its one argument
SectionLine(line) == line.form = "command" /\ IsSectionCommand(line)

\* the line is a command that is not a section command
OtherCommand(line) == line.form = "command" /\ ~IsSectionCommand(line)

\* the section commands among the lines, in source order
Sections(lines) == SelectSeq(lines, SectionLine)

SectionBlock(chunk) == chunk.item \in { "alphabet", "clock", "program" }

\* the emitted section blocks among the chunks of a text, in text order
SectionBlocks(code) == SelectSeq(code, SectionBlock)

\* the chunk is the block emitted for the section that the line opens
BlockOf(chunk, line) ==
    CASE line.cmd = "defalphabet" ->
             /\ chunk.item = "alphabet"
             /\ chunk.struct_name = << "Alphabet", Pascal(line.args[1]) >>
      [] line.cmd = "defclock" ->
             /\ chunk.item = "clock"
             /\ chunk.struct_name = << "Clock", Pascal(line.args[1]) >>
      [] line.cmd = "defprogram" ->
             /\ chunk.item = "program"
             /\ chunk.struct_name = << "Program", Pascal(line.args[1]) >>

\* C11: when the whole source was fed and generate was called, the artifact
\* holds one emitted block for every defalphabet, defclock and defprogram
\* section of the source, in particular for the section that was still open
\* when the input ended.
EverySectionEmitted ==
    pc = "generated" =>
        /\ Len(SectionBlocks(ret.code)) = Len(Sections(fed))
        /\ \A i \in 1 .. Len(Sections(fed)) :
               BlockOf(SectionBlocks(ret.code)[i], Sections(fed)[i])

\* a step that passes a section command to parse_line
SectionStep == pc = "main" /\ pc' # "generated" /\ SectionLine(call'.line)

\* the section blocks of the output buffer are those of the sections closed
\* so far, in the order of their section commands
ClosedSectionsInOrder ==
    pc = "main" =>
        /\ Len(SectionBlocks(parser.source)) =
               IF Sections(fed) = << >> THEN 0 ELSE Len(Sections(fed)) - 1
        /\ \A i \in 1 .. Len(SectionBlocks(parser.source)) :
               BlockOf(SectionBlocks(parser.source)[i], Sections(fed)[i])

\* C12: a section command first runs the emitter of the section being built,
\* appends the emitted text and a newline to the end of the output buffer,
\* leaving what the buffer held before untouched, and only then switches to
\* the new builder state (when the emitter fails the command panics with
\* buffer and state as they were); so the emitted sections stand in the
\* output in the order of their section commands.
SectionCommandAppendsThenSwitches ==
    [][SectionStep =>
          /\ IF State_generate(parser.state).tag = "Ok"
             THEN /\ pc' = "main"
                  /\ parser'.source =
                         parser.source \o State_generate(parser.state).code
                                       \o << Newline >>
                  /\ parser'.state = State_for(call'.line)
             ELSE /\ pc' = "panic"
                  /\ parser'.source = parser.source
                  /\ parser'.state = parser.state
          /\ ClosedSectionsInOrder']_vars

SectionCommandWitness ==
    /\ pc = "main"
    /\ call.op = "parse_line"
    /\ SectionLine(call.line)
    /\ Len(SectionBlocks(parser.source)) = 2
    /\ Len(parser.source) = 5
    /\ parser.state = State_for(call.line)

\* alphabet blocks are of rank 1, clock blocks of rank 2, program blocks of
\* rank 3
Rank(chunk) ==
    CASE chunk.item = "alphabet" -> 1
      [] chunk.item = "clock" -> 2
      [] chunk.item = "program" -> 3

\* C13: in the artifact every alphabet block stands before every clock block
\* and every clock block before every program block, whatever the order in
\* which the source declares the sections.
BlocksGroupedByKind ==
    pc = "generated" =>
        \A i, j \in 1 .. Len(SectionBlocks(ret.code)) :
            i < j => Rank(SectionBlocks(ret.code)[i]) <= Rank(SectionBlocks(ret.code)[j])

SecondCharTypeRejected ==
    [][(/\ pc = "main"
        /\ pc' # "generated"
        /\ parser.state.kind = "Alphabet"
        /\ parser.state.char_type # None
        /\ call'.line = Command("set_char_type", call'.line.args)
        /\ Len(call'.line.args) = 1)
       => /\ pc' = "panic"
          /\ parser'.state.char_type = parser.state.char_type]_vars

\* C20: a def_char that repeats the name or the value of an earlier def_char
\* of the alphabet is rejected, so the names of an alphabet are pairwise
\* distinct and so are its values.
CharsPairwiseDistinct ==
    parser.state.kind = "Alphabet" =>
        \A i, j \in 1 .. Len(parser.state.chars) :
            i # j => /\ parser.state.chars[i][1] # parser.state.chars[j][1]
                     /\ parser.state.chars[i][2] # parser.state.chars[j][2]

(***************************************************************************)
(* Properties of the program builder and emitter (specification            *)
(* SpecProgram).                                                           *)
(***************************************************************************)
Declares(self, name) == \E i \in 1 .. Len(self.gateways) : self.gateways[i].name = name

\* the jump that the line jlt L,Time(A),Time(B) or jgt L,Time(A),Time(B)
\* stands for
JumpOf(line) ==
    [op |-> IF line.cmd = "jlt" THEN "JumpEarlier" ELSE "JumpLater",
     label |-> line.args[1], gateway_a |-> "A", gateway_b |-> "B"]

\* C17: in a program that declares gateways A and B, the line
\* jlt L,Time(A),Time(B); or jgt L,Time(A),Time(B); is accepted and appended
\* to the current label block as a jump that compares gateways A and B.
JltJgtAccepted ==
    [][(/\ pc = "main"
        /\ pc' # "generated"
        /\ parser.state.kind = "Program"
        /\ Declares(parser.state, "A")
        /\ Declares(parser.state, "B")
        /\ call'.line.form = "command"
        /\ call'.line.cmd \in { "jlt", "jgt" })
       => /\ pc' = "main"
          /\ parser'.state.kind = "Program"
          /\ Len(parser'.state.instructions) = Len(parser.state.instructions)
          /\ parser'.state.instructions[Len(parser.state.instructions)].body =
                 Append(parser.state.instructions[Len(parser.state.instructions)].body,
                        JumpOf(call'.line))]_vars

\* every label block that a jump of the emitted program block targets stands
\* later in the program than the block of the jump
ForwardOnly(chunk) ==
    \A f \in 1 .. Len(chunk.funcs) :
        \A j \in 1 .. Len(chunk.funcs[f].body) :
            IsJumpStatement(chunk.funcs[f].body[j]) =>
                \A g \in 1 .. Len(chunk.funcs) :
                    chunk.funcs[g].func_name = chunk.funcs[f].body[j].label_func
                        => f < g

\* C16: the program emitter refuses to emit a jump whose target label block
\* is not strictly later in source order than the block that holds the jump,
\* so no emitted program holds a backward jump or a jump to its own block.
NoBackwardJumpEmitted ==
    \A i \in 1 .. Len(parser.source) :
        parser.source[i].item = "program" => ForwardOnly(parser.source[i])

(***************************************************************************)
(* Running an emitted program.  The source declares an alphabet, two       *)
(* clocks and the program sync2 with gateways A and B and exit C, then     *)
(* at most MaxBody lines of labels, jumps and start_moment, then the       *)
(* section command that closes the program.  It is transpiled, the         *)
(* artifact is compiled, the program struct is instantiated and the        *)
(* gateways are given their current moments; then the caller runs one of   *)
(* its label methods.                                                      *)
(***************************************************************************)
\* longest body of the program
MaxBody == 5

\* most label methods entered and not returned from
MaxDepth == 4

MachineLines ==
    { Command("label", << "a_earlier" >>),
      Command("label", << "a_later" >>),
      Command("jump_earlier", << "a_earlier", "A", "B" >>),
      Command("jump_later", << "a_later", "A", "B" >>),
      Command("start_moment", << "0", "C" >>) }

Bodies == UNION { [1 .. n -> MachineLines] : n \in 0 .. MaxBody }

MachineFile(clock_b, body) ==
    << Command("defalphabet", << "ASCII" >>),
       Command("set_char_type", << "u8" >>),
       Command("defclock", << "CounterClock" >>),
       Command("set_moment_type", << "u32" >>),
       Command("set_clock_repr", << "QUANTITY" >>),
       Command("defclock", << "UnixClock" >>),
       Command("set_moment_type", << "u32" >>),
       Command("set_clock_repr", << "UNIX_TIMESTAMP" >>),
       Command("defprogram", << "sync2" >>),
       Command("reg_gateway", << "A", "ASCII", "CounterClock", "0x2" >>),
       Command("reg_gateway", << "B", "ASCII", clock_b, "0x2" >>),
       Command("reg_exit", << "C", "ASCII", "CounterClock", "0x2" >>) >>
    \o body \o << Command("defprogram", << "zip2" >>) >>

\* main on the lines: the parser after the last line, or the first panic
RECURSIVE Feed(_, _)
FeedRest(r, lines) == IF r.tag = "Ok" THEN Feed(r.parser, lines) ELSE r

Feed(self, lines) ==
    IF lines = << >> THEN [tag |-> "Ok", parser |-> self]
    ELSE FeedRest(parse_line(self, Head(lines)), Tail(lines))

Distinct(seq) == \A i, j \in 1 .. Len(seq) : i # j => seq[i] # seq[j]

Names(seq, field) == { seq[i][field] : i \in 1 .. Len(seq) }

\* the declaration of the field among the emitted fields
FieldNamed(fields, f) ==
    CHOOSE d \in { fields[i] : i \in 1 .. Len(fields) } : d.field_name = f

\* the statement of a program block passes the compiler: it is no
\* compile_error! and the methods, fields and types it names exist
StatementCompiles(types, chunk, stmt) ==
    CASE stmt.stmt = "set_initial_moment" ->
             stmt.exit_field \in Names(chunk.exits, "field_name")
      [] IsJumpStatement(stmt) ->
             /\ stmt.label_func \in Names(chunk.funcs, "func_name")
             /\ stmt.gateway_a_field \in Names(chunk.gateways, "field_name")
             /\ stmt.gateway_b_field \in Names(chunk.gateways, "field_name")
             /\ stmt.clock_a \in types
             /\ stmt.clock_b \in types
      [] stmt.stmt = "push_moment" ->
             stmt.exit_field \in Names(chunk.exits, "field_name")
      [] stmt.stmt \in { "push_char", "push_val" } ->
             /\ stmt.exit_field \in Names(chunk.exits, "field_name")
             /\ stmt.alphabet_name \in types
      [] stmt.stmt = "forward_duration" ->
             /\ stmt.gateway_field \in Names(chunk.gateways, "field_name")
             /\ stmt.exit_field \in Names(chunk.exits, "field_name")
             /\ FieldNamed(chunk.gateways, stmt.gateway_field).alphabet_name =
                    FieldNamed(chunk.exits, stmt.exit_field).alphabet_name
      [] OTHER -> FALSE

\* the artifact passes the compiler: no type, field or method is defined
\* twice and every name used is defined
BlockCompiles(types, chunk) ==
    chunk.item = "program" =>
        /\ Distinct([i \in 1 .. Len(chunk.funcs) |-> chunk.funcs[i].func_name])
        /\ Distinct([i \in 1 .. Len(chunk.gateways \o chunk.exits) |->
                        (chunk.gateways \o chunk.exits)[i].field_name])
        /\ \A i \in 1 .. Len(chunk.gateways \o chunk.exits) :
               /\ (chunk.gateways \o chunk.exits)[i].alphabet_name \in types
               /\ (chunk.gateways \o chunk.exits)[i].clock_name \in types
        /\ \A f \in 1 .. Len(chunk.funcs) :
               \A j \in 1 .. Len(chunk.funcs[f].body) :
                   StatementCompiles(types, chunk, chunk.funcs[f].body[j])

IsAlphabet(chunk) == chunk.item = "alphabet"

\* the alphabet block passes the compiler: no variant of the character
\* enum is defined twice
AlphabetCompiles(alphabet) ==
    Distinct([i \in 1 .. Len(alphabet.arms) |-> alphabet.arms[i][2]])

\* every character that a push_char of the program block names is a
\* variant of the character enum of the alphabet of its exit
VariantsExist(blocks, chunk) ==
    chunk.item = "program" =>
        \A f \in 1 .. Len(chunk.funcs) :
            \A j \in 1 .. Len(chunk.funcs[f].body) :
                chunk.funcs[f].body[j].stmt = "push_char" =>
                    \E k \in 1 .. Len(blocks) :
                        /\ IsAlphabet(blocks[k])
                        /\ blocks[k].struct_name = chunk.funcs[f].body[j].alphabet_name
                        /\ chunk.funcs[f].body[j].enum_name \in
                               { blocks[k].arms[i][2] : i \in 1 .. Len(blocks[k].arms) }

Compiles(blocks) ==
    /\ Distinct([i \in 1 .. Len(blocks) |-> blocks[i].struct_name])
    /\ \A i \in 1 .. Len(blocks) :
           /\ BlockCompiles(Names(blocks, "struct_name"), blocks[i])
           /\ IsAlphabet(blocks[i]) => AlphabetCompiles(blocks[i])
           /\ VariantsExist(blocks, blocks[i])

\* the current moment that a new gateway stream is given
WithMoment(s, moment) ==
    IF moment = None THEN s ELSE set_initial_moment(s, moment[1]).s

\* the representation tags of the emitted clock types
Tags(clocks) ==
    [t \in Names(clocks, "struct_name") |->
        (CHOOSE c \in { clocks[i] : i \in 1 .. Len(clocks) } :
             c.struct_name = t).represents]

IsClock(chunk) == chunk.item = "clock"

\* ProgramX::new() of the program block among the blocks, with current
\* moments a and b given to gateway_a and gateway_b
Instance(blocks, chunk, a, b) ==
    [funcs |-> chunk.funcs,
     streams |-> [f \in Names(chunk.gateways \o chunk.exits, "field_name") |->
                     WithMoment(
                         new(Lit(FieldNamed(chunk.gateways \o chunk.exits, f).buf_size_lit)),
                         IF f = << "gateway", "a" >> THEN a
                         ELSE IF f = << "gateway", "b" >> THEN b ELSE None)],
     tags |-> Tags(SelectSeq(blocks, IsClock)),
     alphabets |-> [t \in Names(SelectSeq(blocks, IsAlphabet), "struct_name") |->
                       CHOOSE c \in { blocks[i] : i \in 1 .. Len(blocks) } :
                           c.struct_name = t],
     alphabet_of |-> [f \in Names(chunk.gateways \o chunk.exits, "field_name") |->
                         FieldNamed(chunk.gateways \o chunk.exits, f).alphabet_name],
     func |-> 0, ip |-> 0, depth |-> 0, trace |-> << >>]

\* the current moment of a gateway: none yet, or one of the moments 1 and 3
\* of the example streams in the comment of zip2
OptionalMoments == { None, Some(1), Some(3) }

InitMachine ==
    \E body \in Bodies, clock_b \in { "CounterClock", "UnixClock" } :
        \E r \in { Feed(Parser_new, MachineFile(clock_b, body)) } :
            /\ r.tag = "Ok"
            /\ \E blocks \in { SectionBlocks(r.parser.source) } :
                   /\ Compiles(blocks)
                   /\ \E a, b \in OptionalMoments :
                          machine = Instance(blocks, blocks[Len(blocks)], a, b)
            /\ parser = r.parser
            /\ fed = MachineFile(clock_b, body)
            /\ call = [op |-> "generate"]
            /\ ret = Parser_generate(r.parser)
            /\ pc = "idle"
            /\ gateway = new(1)
            /\ exit = new(1)
            /\ run = NoRun(FALSE)
            /\ preload = << >>
            /\ live = << >>

\* the caller runs a label method of the program
CallLabel ==
    /\ pc = "idle"
    /\ \E f \in 1 .. Len(machine.funcs) :
           /\ machine' = [machine EXCEPT !.func = f, !.ip = 1, !.depth = 1]
           /\ call' = [op |-> "label", func |-> f]
    /\ pc' = "running"
    /\ UNCHANGED << gateway, exit, ret, run, preload, live, parser, fed >>

\* the running label method makes its next step
LabelStep ==
    /\ pc = "running"
    /\ \E r \in { label_step(machine) } :
           /\ r.machine.depth <= MaxDepth
           /\ machine' = r.machine
           /\ pc' = r.pc
    /\ UNCHANGED << gateway, exit, call, ret, run, preload, live, parser, fed >>

NextMachine == CallLabel \/ LabelStep

SpecMachine == InitMachine /\ [][NextMachine]_vars

(***************************************************************************)
(* Properties of the label methods (specification SpecMachine).            *)
(***************************************************************************)
\* the machine is about to execute a lowered jump
AtJump ==
    /\ pc = "running"
    /\ machine.ip <= Len(machine.funcs[machine.func].body)
    /\ IsJumpStatement(machine.funcs[machine.func].body[machine.ip])

\* the statement at the position of the machine
Current == machine.funcs[machine.func].body[machine.ip]

MomentA == current_moment(machine.streams[Current.gateway_a_field])

MomentB == current_moment(machine.streams[Current.gateway_b_field])

\* the condition under which the jump at the position is to be taken: for
\* jlt, A has no moment and B has one, or both have one and A's is less;
\* for jgt, A has a moment and B has none, or both have one and A's is greater
ToBeTaken ==
    IF Current.stmt = "jump_earlier"
    THEN \/ MomentA = None /\ MomentB # None
         \/ MomentA # None /\ MomentB # None /\ MomentA[1] < MomentB[1]
    ELSE \/ MomentA # None /\ MomentB = None
         \/ MomentA # None /\ MomentB # None /\ MomentA[1] > MomentB[1]

\* the step transfers control to the label method of the jump
Transfers ==
    /\ pc' = "running"
    /\ machine'.funcs[machine'.func].func_name = Current.label_func
    /\ machine'.ip = 1
    /\ machine'.depth = machine.depth + 1

\* the step goes on with the next instruction of the block
Continues ==
    /\ pc' = "running"
    /\ machine'.func = machine.func
    /\ machine'.ip = machine.ip + 1
    /\ machine'.depth = machine.depth

\* C14: the lowered jlt L,A,B transfers control to label_L exactly when
\* current_moment(A) is None and current_moment(B) is Some, or both are Some
\* and A's moment is less than B's; the lowered jgt L,A,B exactly when A's is
\* Some and B's is None, or both are Some and A's is greater; in every other
\* case execution goes on with the next instruction.
JumpTakenIffCompared ==
    [][AtJump => IF ToBeTaken THEN Transfers ELSE Continues]_vars

\* C14, amended: the same, for gateways whose clocks have equal
\* representation tags; when the tags differ the jump panics instead.
JumpTakenIffComparedOnEqualTags ==
    [][AtJump =>
          IF machine.tags[Current.clock_a] = machine.tags[Current.clock_b]
          THEN IF ToBeTaken THEN Transfers ELSE Continues
          ELSE pc' = "panic"]_vars

JumpTakenWitness ==
    /\ pc = "running"
    /\ Len(machine.trace) = 2
    /\ ~machine.trace[1].taken
    /\ machine.funcs[machine.trace[1].func].body[machine.trace[1].ip].stmt = "jump_earlier"
    /\ machine.trace[2].taken
    /\ machine.funcs[machine.trace[2].func].body[machine.trace[2].ip].stmt = "jump_later"
    /\ current_moment(machine.streams[<< "gateway", "a" >>]) = Some(3)
    /\ current_moment(machine.streams[<< "gateway", "b" >>]) = Some(1)

\* the label method that the jump of a trace entry names
TargetOf(e) == FuncIndex(machine.funcs, machine.funcs[e.func].body[e.ip].label_func)

\* C15: when a jump is taken, none of the instructions that follow it in its
\* block is executed: the instructions of the target block run and control
\* returns to the caller of the source block; a block whose last instruction
\* was executed returns without executing the block that follows it.
TakenJumpSkipsRest ==
    /\ \A k \in 1 .. (Len(machine.trace) - 1) :
           IF machine.trace[k].taken
           THEN /\ machine.trace[k + 1].func = TargetOf(machine.trace[k])
                /\ machine.trace[k + 1].ip = 1
                /\ machine.trace[k + 1].depth = machine.trace[k].depth + 1
           ELSE /\ machine.trace[k + 1].func = machine.trace[k].func
                /\ machine.trace[k + 1].ip = machine.trace[k].ip + 1
                /\ machine.trace[k + 1].depth = machine.trace[k].depth
    /\ (pc = "running" /\ machine.trace # << >>) =>
           IF machine.trace[Len(machine.trace)].taken
           THEN /\ machine.func = TargetOf(machine.trace[Len(machine.trace)])
                /\ machine.ip = 1
           ELSE /\ machine.func = machine.trace[Len(machine.trace)].func
                /\ machine.ip = machine.trace[Len(machine.trace)].ip + 1
    /\ (pc = "returned" /\ machine.trace # << >>) =>
           IF machine.trace[Len(machine.trace)].taken
           THEN machine.funcs[TargetOf(machine.trace[Len(machine.trace)])].body = << >>
           ELSE machine.trace[Len(machine.trace)].ip =
                    Len(machine.funcs[machine.trace[Len(machine.trace)].func].body)

\* label_root jumped over its second instruction to a_later, whose one
\* instruction ran, and returned
TakenJumpWitness ==
    /\ pc = "returned"
    /\ Len(machine.funcs) >= 2
    /\ Len(machine.funcs[1].body) = 2
    /\ Len(machine.funcs[2].body) = 1
    /\ Len(machine.trace) = 2
    /\ machine.trace[1] = [depth |-> 1, func |-> 1, ip |-> 1, taken |-> TRUE]
    /\ machine.trace[2] = [depth |-> 2, func |-> 2, ip |-> 1, taken |-> FALSE]

(***************************************************************************)
(* Sections that lack a required field (specification SpecParser).         *)
(***************************************************************************)
\* the error with which the emitter of the section refuses a builder that
\* lacks a required field, or None when the builder lacks none
MissingField(state) ==
    CASE state.kind = "Alphabet" /\ state.char_type = None ->
             Some(<< "Never called set_char_type on Alphabet", state.name >>)
      [] state.kind = "Clock" /\ state.repr = None ->
             Some(<< "Never called set_clock_repr on Clock", state.name >>)
      [] state.kind = "Clock" /\ state.moment_type = None ->
             Some(<< "Never called set_moment_type on Clock", state.name >>)
      [] OTHER -> None

\* C22: when a section command finalizes an alphabet on which set_char_type
\* was never issued, or a clock on which set_moment_type or set_clock_repr
\* was never issued, the emitter fails with the error that names the missing
\* field and the compilation aborts: parse_line panics with that error,
\* nothing is appended to the output buffer and the dispatcher stays in the
\* state it was in.
MissingFieldIsFatal ==
    [][(SectionStep /\ MissingField(parser.state) # None)
       => /\ pc' = "panic"
          /\ ret' = PanicWith(<< "Error generating code",
                                 MissingField(parser.state)[1] >>)
          /\ parser'.source = parser.source
          /\ parser'.state = parser.state]_vars

\* a clock with a representation and no moment type was finalized
MissingFieldWitness ==
    /\ pc = "panic"
    /\ SectionLine(call.line)
    /\ parser.state.kind = "Clock"
    /\ parser.state.repr = Some("QUANTITY")
    /\ parser.state.moment_type = None
    /\ ret = PanicWith(<< "Error generating code",
                          << "Never called set_moment_type on Clock",
                             "counter_clock" >> >>)

(***************************************************************************)
(* Sources of programs with exits, pushes and jumps: the program sync2     *)
(* with declarations and instructions in any order, closed or not by a     *)
(* section command.                                                        *)
(***************************************************************************)
\* longest source file of a program with pushes
MaxEmitLines == 5

EmitLines ==
    { Command("defprogram", << "sync2" >>),
      Command("reg_gateway", << "A", "ASCII", "CounterClock", "0x50" >>),
      Command("reg_gateway", << "B", "ASCII", "CounterClock", "0x50" >>),
      Command("reg_exit", << "C", "ASCII", "CounterClock", "0x50" >>),
      Command("label", << "main" >>),
      Command("push_char", << "A_UPPERCASE", "C" >>),
      Command("push_val", << "0x41", "C" >>),
      Command("jump_earlier", << "main", "A", "B" >>),
      Command("start_moment", << "0", "C" >>),
      Command("defclock", << "counter_clock" >>) }

ParseEmitLine ==
    \E line \in EmitLines : Len(fed) < MaxEmitLines /\ ParseLine(line)

NextEmit == ParseEmitLine \/ Generate

SpecEmit == InitParser /\ [][NextEmit]_vars

(***************************************************************************)
(* Properties of the program builder (specification SpecEmit).             *)
(***************************************************************************)
\* a step that passes a command other than a section command to the builder
\* of a program
BuilderStep ==
    /\ pc = "main"
    /\ pc' # "generated"
    /\ parser.state.kind = "Program"
    /\ OtherCommand(call'.line)

\* the names that the program has declared for its gateways and its exits
DeclaredNames(self) == Names(self.gateways, "name") \cup Names(self.exits, "name")

\* C21: a reg_gateway or reg_exit whose name the program has already given
\* to a gateway or to an exit is rejected: the command is fatal and the
\* declarations stay as they were, so the gateway and exit names of a
\* program are pairwise distinct.
DuplicateDeclarationRejected ==
    [][(/\ BuilderStep
        /\ call'.line.cmd \in { "reg_gateway", "reg_exit" }
        /\ Len(call'.line.args) = 4
        /\ call'.line.args[1] \in DeclaredNames(parser.state))
       => /\ pc' = "panic"
          /\ parser'.state.gateways = parser.state.gateways
          /\ parser'.state.exits = parser.state.exits
          /\ Distinct([i \in 1 .. Len(parser.state.gateways \o parser.state.exits) |->
                          (parser.state.gateways \o parser.state.exits)[i].name])]_vars

\* C26: a label NAME that is the first command after defprogram is rejected:
\* the command is fatal and opens no block.
FirstLabelRejected ==
    [][(/\ BuilderStep
        /\ parser.state.instructions = << >>
        /\ call'.line.cmd = "label"
        /\ Len(call'.line.args) = 1)
       => /\ pc' = "panic"
          /\ parser'.state.instructions = << >>]_vars

\* the label blocks of the builder once the root block is opened
Opened(self) ==
    IF self.instructions = << >>
    THEN << [name |-> "root", body |-> << >>] >>
    ELSE self.instructions

IsDeclaration(line) == line.cmd \in { "reg_gateway", "reg_exit" }

\* C25: after a command that the builder of a program accepts, the list of
\* label blocks is not empty and its first block is named root; a label NAME
\* appends an empty block named NAME at the end of the list, a declaration
\* leaves the blocks alone, and an instruction is appended to the body of
\* the last block; the blocks before the last one are never modified.
LabelBlocksGrowAtTheEnd ==
    [][(BuilderStep /\ pc' = "main")
       => /\ parser'.state.instructions # << >>
          /\ parser'.state.instructions[1].name = "root"
          /\ \A i \in 1 .. (Len(Opened(parser.state)) - 1) :
                 parser'.state.instructions[i] = Opened(parser.state)[i]
          /\ IF call'.line.cmd = "label"
             THEN parser'.state.instructions =
                      Append(Opened(parser.state),
                             [name |-> call'.line.args[1], body |-> << >>])
             ELSE IF IsDeclaration(call'.line)
             THEN parser'.state.instructions = Opened(parser.state)
             ELSE /\ Len(parser'.state.instructions) = Len(Opened(parser.state))
                  /\ parser'.state.instructions[Len(Opened(parser.state))].name =
                         Opened(parser.state)[Len(Opened(parser.state))].name
                  /\ \E instr \in { parser'.state.instructions[
                                         Len(Opened(parser.state))].body[
                                             Len(parser'.state.instructions[
                                                 Len(Opened(parser.state))].body)] } :
                         parser'.state.instructions[Len(Opened(parser.state))].body =
                             Append(Opened(parser.state)[Len(Opened(parser.state))].body,
                                    instr)]_vars

\* an instruction issued before the label went to root, the one issued
\* after it to the block of the label
LabelBlocksWitness ==
    /\ pc = "main"
    /\ parser.state.kind = "Program"
    /\ Len(parser.state.instructions) = 2
    /\ parser.state.instructions[1].name = "root"
    /\ Len(parser.state.instructions[1].body) = 1
    /\ parser.state.instructions[1].body[1].op = "StartMoment"
    /\ parser.state.instructions[2].name = "main"
    /\ Len(parser.state.instructions[2].body) = 1
    /\ parser.state.instructions[2].body[1].op = "PushChar"
    /\ call.line.cmd = "push_char"

(***************************************************************************)
(* Properties of the program emitter (specification SpecEmit).             *)
(***************************************************************************)
\* the instructions of all label blocks of the program
Instructions(self) ==
    UNION { { self.instructions[f].body[j] : j \in 1 .. Len(self.instructions[f].body) } :
            f \in 1 .. Len(self.instructions) }

\* the exits that a push_char or push_val of the program names and the
\* program does not declare, and the gateways that a jump names and the
\* program does not declare
Unresolved(self) ==
    { instr.exit : instr \in { i \in Instructions(self) :
                                   /\ i.op \in { "PushChar", "PushVal" }
                                   /\ i.exit \notin Names(self.exits, "name") } }
    \cup
    { instr.gateway_a : instr \in { i \in Instructions(self) :
                                        /\ i.op \in { "JumpEarlier", "JumpLater" }
                                        /\ i.gateway_a \notin Names(self.gateways, "name") } }
    \cup
    { instr.gateway_b : instr \in { i \in Instructions(self) :
                                        /\ i.op \in { "JumpEarlier", "JumpLater" }
                                        /\ i.gateway_b \notin Names(self.gateways, "name") } }

\* a step that finalizes a program
ProgramEmitStep == SectionStep /\ parser.state.kind = "Program"

\* C23: emitting a program in which a push_char or push_val names an exit
\* that no reg_exit of the program declares, or a jump names a gateway that
\* no reg_gateway of the program declares, is fatal: the emitter panics with
\* a message that names such an identifier and the program, and nothing is
\* appended to the output buffer.
UnresolvedPushOrJumpIsFatal ==
    [][(ProgramEmitStep /\ Unresolved(parser.state) # { })
       => /\ pc' = "panic"
          /\ ret'.tag = "Panic"
          /\ ret'.msg[1] \in { "Could not find Exit", "Could not find Gateway" }
          /\ ret'.msg[2] \in Unresolved(parser.state)
          /\ ret'.msg[3] = parser.state.name
          /\ parser'.source = parser.source
          /\ parser'.state = parser.state]_vars

\* the jump of a program that declares gateway A and not gateway B
UnresolvedWitness ==
    /\ pc = "panic"
    /\ SectionLine(call.line)
    /\ parser.state.kind = "Program"
    /\ Names(parser.state.gateways, "name") = { "A" }
    /\ ret = PanicWith(<< "Could not find Gateway", "B", "sync2" >>)

\* the names that the section commands of the lines give to sections of
\* the kind, as the emitter writes them into type names
Defined(lines, cmd) ==
    { Pascal(lines[i].args[1]) :
          i \in { k \in 1 .. Len(lines) : SectionLine(lines[k]) /\ lines[k].cmd = cmd } }

\* the names that the program refers to and that nothing declares: the
\* target label of a jump without a label block, the exit or gateway of a
\* start_moment, push_moment, forward_moment or forward_duration that the
\* program does not declare, and the alphabet or clock of a declaration
\* that no defalphabet or defclock of the lines declares
Dangling(self, lines) ==
    { i.label : i \in { i \in Instructions(self) :
                            /\ i.op \in { "JumpEarlier", "JumpLater" }
                            /\ i.label \notin Names(self.instructions, "name") } }
    \cup
    { i.exit : i \in { i \in Instructions(self) :
                           /\ i.op \in { "StartMoment", "PushMoment",
                                         "ForwardMoment", "ForwardDuration" }
                           /\ i.exit \notin Names(self.exits, "name") } }
    \cup
    { i.gateway : i \in { i \in Instructions(self) :
                              /\ i.op \in { "ForwardMoment", "ForwardDuration" }
                              /\ i.gateway \notin Names(self.gateways, "name") } }
    \cup
    { d.alphabet : d \in { d \in { (self.gateways \o self.exits)[k] :
                                       k \in 1 .. Len(self.gateways \o self.exits) } :
                               Pascal(d.alphabet) \notin Defined(lines, "defalphabet") } }
    \cup
    { d.clock : d \in { d \in { (self.gateways \o self.exits)[k] :
                                    k \in 1 .. Len(self.gateways \o self.exits) } :
                            Pascal(d.clock) \notin Defined(lines, "defclock") } }

\* C24: emitting a program that refers to a name that is not declared (the
\* target label of a jump, the exit or gateway of a start_moment,
\* push_moment or forward_duration, the alphabet or clock of a reg_gateway
\* or reg_exit) is fatal.
DanglingReferenceIsFatal ==
    [][(ProgramEmitStep /\ Dangling(parser.state, fed) # { }) => pc' = "panic"]_vars

(***************************************************************************)
(* The clock-tag guard of the lowered jumps (specification SpecMachine).   *)
(***************************************************************************)
\* the representation tag of the clock that the program of the artifact
\* declares for the gateway field
DeclaredTag(blocks, field) ==
    (CHOOSE c \in { blocks[i] : i \in 1 .. Len(blocks) } :
         /\ c.item = "clock"
         /\ c.struct_name =
                FieldNamed(blocks[Len(blocks)].gateways, field).clock_name).represents

TagsDiffer ==
    DeclaredTag(SectionBlocks(ret.code), Current.gateway_a_field)
        # DeclaredTag(SectionBlocks(ret.code), Current.gateway_b_field)

\* C27: when the clocks declared for the two gateways of a jump have
\* different representation tags, executing the lowered jump panics: the
\* moments are not compared, the jump is not taken and the next instruction
\* is not reached; when the tags are equal the jump does not panic.
ClockTagGuard ==
    [][AtJump =>
          IF TagsDiffer
          THEN /\ pc' = "panic"
               /\ machine'.func = machine.func
               /\ machine'.ip = machine.ip
               /\ machine'.depth = machine.depth
               /\ machine'.streams = machine.streams
          ELSE pc' = "running"]_vars

\* gateway B is on the UNIX_TIMESTAMP clock and has the later moment: the
\* jlt of label_root would be taken and panicked instead
ClockTagGuardWitness ==
    /\ pc = "panic"
    /\ machine.tags[<< "Clock", "CounterClock" >>] = "QUANTITY"
    /\ machine.tags[<< "Clock", "UnixClock" >>] = "UNIX_TIMESTAMP"
    /\ machine.func = 1
    /\ machine.ip = 1
    /\ machine.funcs[1].body[1].stmt = "jump_earlier"
    /\ machine.funcs[1].body[1].clock_b = << "Clock", "UnixClock" >>
    /\ current_moment(machine.streams[<< "gateway", "a" >>]) = Some(1)
    /\ current_moment(machine.streams[<< "gateway", "b" >>]) = Some(3)
    /\ Len(machine.trace) = 1

(***************************************************************************)
(* The functions of an emitted alphabet (specification SpecAlphabet).      *)
(***************************************************************************)
\* names and values to ask the emitted functions for
ProbeNames == { "A_UPPERCASE", "B_UPPERCASE", "C_UPPERCASE" }

ProbeValues == { Lit("0x41"), Lit("0x42"), Lit("0x43") }

\* the (value, name) pairs that the def_char commands of the alphabet
\* declared, as the emitted block holds them
DeclaredPairs(alphabet) ==
    { << Lit(alphabet.arms[i][1]), alphabet.name_arms[i][1] >> :
          i \in 1 .. Len(alphabet.arms) }

\* C29: for every (value, name) pair that def_char declared in an alphabet,
\* the emitted functions satisfy to_val(char_with_name(name)) = value and
\* to_char(value) = Ok(char_with_name(name)); a name that was not declared
\* yields NameNotFound and a value that was not declared yields
\* UnknownCharacter(value).
EmittedAlphabetBijection ==
    \A k \in 1 .. Len(parser.source) :
        (IsAlphabet(parser.source[k]) /\ AlphabetCompiles(parser.source[k])) =>
            /\ \A p \in DeclaredPairs(parser.source[k]) :
                   /\ Emitted_char_with_name(parser.source[k], p[2]).ok
                   /\ Emitted_to_val(parser.source[k],
                                     Emitted_char_with_name(parser.source[k], p[2]).chr)
                          = p[1]
                   /\ Emitted_to_char(parser.source[k], p[1]) =
                          [ok |-> TRUE,
                           chr |-> Emitted_char_with_name(parser.source[k], p[2]).chr]
            /\ \A name \in ProbeNames :
                   (\A p \in DeclaredPairs(parser.source[k]) : p[2] # name) =>
                       Emitted_char_with_name(parser.source[k], name) =
                           [ok |-> FALSE, err |-> << "NameNotFound" >>]
            /\ \A value \in ProbeValues :
                   (\A p \in DeclaredPairs(parser.source[k]) : p[1] # value) =>
                       Emitted_to_char(parser.source[k], value) =
                           [ok |-> FALSE, err |-> << "UnknownCharacter", value >>]

(***************************************************************************)
(* Running a program that pushes.  The source is either the alphabet of    *)
(* the characters A and B, the clock CounterClock and the program          *)
(* hello_world with gateway B, exit A and at most MaxRun instructions, or  *)
(* the program hello_world of main.rs with the characters it uses; a       *)
(* section command closes the program.  The artifact is compiled, the      *)
(* program is instantiated, gateway B is loaded by pushes, and the caller  *)
(* runs label_root.                                                        *)
(***************************************************************************)
\* most instructions of the program
MaxRun == 4

RunLines ==
    { Command("start_moment", << "0", "A" >>),
      Command("push_moment", << "1", "A" >>),
      Command("push_char", << "A_UPPERCASE", "A" >>),
      Command("push_val", << "0x42", "A" >>),
      Command("push_val", << "0x43", "A" >>),
      Command("forward_duration", << "B", "A" >>) }

RunBodies == UNION { [1 .. n -> RunLines] : n \in 0 .. MaxRun }

RunFile(buf_size, body) ==
    << Command("defalphabet", << "ASCII" >>),
       Command("set_char_type", << "u8" >>),
       Command("def_char", << "0x41", "A_UPPERCASE" >>),
       Command("def_char", << "0x42", "B_UPPERCASE" >>),
       Command("defclock", << "CounterClock" >>),
       Command("set_moment_type", << "u32" >>),
       Command("set_clock_repr", << "QUANTITY" >>),
       Command("defprogram", << "hello_world" >>),
       Command("reg_gateway", << "B", "ASCII", "CounterClock", "0x3" >>),
       Command("reg_exit", << "A", "ASCII", "CounterClock", buf_size >>) >>
    \o body \o << Command("defprogram", << "sync2" >>) >>

\* the alphabet section with the characters of the greeting, the clock
\* and the program hello_world
HelloWorldFile ==
    << Command("defalphabet", << "ASCII" >>),
       Command("set_char_type", << "u8" >>),
       Command("def_char", << "0x20", "SPACE" >>),
       Command("def_char", << "0x21", "EXCLAMATION_POINT" >>),
       Command("def_char", << "0x2C", "COMMA" >>),
       Command("def_char", << "0x48", "H_UPPERCASE" >>),
       Command("def_char", << "0x57", "W_UPPERCASE" >>),
       Command("def_char", << "0x64", "D_LOWERCASE" >>),
       Command("def_char", << "0x65", "E_LOWERCASE" >>),
       Command("def_char", << "0x6C", "L_LOWERCASE" >>),
       Command("def_char", << "0x6F", "O_LOWERCASE" >>),
       Command("def_char", << "0x72", "R_LOWERCASE" >>),
       Command("defclock", << "CounterClock" >>),
       Command("set_moment_type", << "u32" >>),
       Unmatched,
       Command("set_clock_repr", << "QUANTITY" >>),
       Command("defprogram", << "hello_world" >>),
       Comment,
       Command("reg_exit", << "A", "ASCII", "CounterClock", "0x50" >>),
       Command("start_moment", << "0", "A" >>),
       Command("push_moment", << "1", "A" >>),
       Command("push_char", << "H_UPPERCASE", "A" >>),
       Command("push_char", << "E_LOWERCASE", "A" >>),
       Command("push_char", << "L_LOWERCASE", "A" >>),
       Command("push_char", << "L_LOWERCASE", "A" >>),
       Command("push_char", << "O_LOWERCASE", "A" >>),
       Command("push_val", << "0x2C", "A" >>),
       Command("push_val", << "0x20", "A" >>),
       Command("push_char", << "W_UPPERCASE", "A" >>),
       Command("push_char", << "O_LOWERCASE", "A" >>),
       Command("push_char", << "R_LOWERCASE", "A" >>),
       Command("push_char", << "L_LOWERCASE", "A" >>),
       Command("push_char", << "D_LOWERCASE", "A" >>),
       Command("push_val", << "0x21", "A" >>),
       Command("push_moment", << "1", "A" >>),
       Command("defprogram", << "sync2" >>) >>

RunFiles ==
    { RunFile(buf_size, body) : buf_size \in { "0x2", "0x3" }, body \in RunBodies }
    \cup { HelloWorldFile }

\* the items that the caller pushes onto gateway B
RunPreloads ==
    { << >>,
      << Character("AUppercase"), Moment(1) >>,
      << Moment(0), Character("BUppercase") >> }

\* the stream s after pushing the items of the sequence its, in order
RECURSIVE LoadIn(_, _, _)
LoadIn(alphabet, s, its) ==
    IF its = << >> THEN s
    ELSE LoadIn(alphabet,
                IF Head(its).tag = "Character"
                THEN push_in(alphabet, s, Head(its).chr).s
                ELSE push_moment(s, Head(its).moment).s,
                Tail(its))

\* the instance m with the items pushed onto its gateway B, when it has one
WithGateway(m, its) ==
    IF << "gateway", "b" >> \in DOMAIN m.streams
    THEN [m EXCEPT !.streams[<< "gateway", "b" >>] =
                       LoadIn(m.alphabets[m.alphabet_of[<< "gateway", "b" >>]], @, its)]
    ELSE m

InitRun ==
    \E file \in RunFiles, its \in RunPreloads :
        \E r \in { Feed(Parser_new, file) } :
            /\ r.tag = "Ok"
            /\ \E blocks \in { SectionBlocks(r.parser.source) } :
                   /\ Compiles(blocks)
                   /\ machine = WithGateway(
                                    Instance(blocks, blocks[Len(blocks)], None, None),
                                    its)
            /\ parser = r.parser
            /\ fed = file
            /\ call = [op |-> "generate"]
            /\ ret = Parser_generate(r.parser)
            /\ pc = "idle"
            /\ gateway = new(1)
            /\ exit = new(1)
            /\ run = NoRun(FALSE)
            /\ preload = its
            /\ live = << >>

SpecRun == InitRun /\ [][NextMachine]_vars

(***************************************************************************)
(* The cells of an exit after a block of pushes                            *)
(***************************************************************************)
\* the instructions of the source, in the order of the lines
RunInstructions ==
    SelectSeq(fed, LAMBDA l : /\ l.form = "command"
                              /\ l.cmd \in { "start_moment", "push_moment", "push_char",
                                              "push_val", "forward_duration" })

IsPushLine(l) == l.cmd \in { "push_moment", "push_char", "push_val" }

IsStartLine(l) == l.cmd = "start_moment"

\* the value that the source declares for the character called name
DeclaredValueOf(name) ==
    Lit((CHOOSE l \in { fed[i] : i \in 1 .. Len(fed) } :
             l.form = "command" /\ l.cmd = "def_char" /\ l.args[2] = name).args[1])

\* the source declares a character of the value lit
ValueDeclared(lit) ==
    \E i \in 1 .. Len(fed) :
        fed[i].form = "command" /\ fed[i].cmd = "def_char" /\ Lit(fed[i].args[1]) = Lit(lit)

\* the item that a push instruction of the source puts in the exit
ItemOf(l) ==
    CASE l.cmd = "push_moment" -> Moment(Lit(l.args[1]))
      [] l.cmd = "push_char" -> Character(DeclaredValueOf(l.args[1]))
      [] l.cmd = "push_val" -> Character(Lit(l.args[1]))

ExitA == machine.streams[<< "exit", "a" >>]

\* the block only starts the clock and pushes, and the exit has a cell for
\* each of its pushes
PushesFit ==
    /\ \A i \in 1 .. Len(RunInstructions) : RunInstructions[i].cmd # "forward_duration"
    /\ ExitA.BUFFER_SIZE >= Len(SelectSeq(RunInstructions, IsPushLine))

\* the instructions that have run to their end
Done ==
    SubSeq(RunInstructions, 1,
           IF pc = "panic" THEN Len(machine.trace) - 1 ELSE Len(machine.trace))

\* exit A is what the instructions lines make of a new exit
ExitAHolds(lines) ==
    /\ \E pushes \in { SelectSeq(lines, IsPushLine) } :
           /\ \A i \in 1 .. Len(pushes) : ExitA.buffer[i - 1] = ItemOf(pushes[i])
           /\ \A i \in Len(pushes) .. ExitA.BUFFER_SIZE - 1 : ExitA.buffer[i] = Empty
           /\ ExitA.buffered_characters =
                  Len(SelectSeq(pushes, LAMBDA l : l.cmd # "push_moment"))
           /\ ExitA.buffered_moments =
                  Len(SelectSeq(pushes, LAMBDA l : l.cmd = "push_moment"))
    /\ \E starts \in { SelectSeq(lines, IsStartLine) } :
           ExitA.last_seen_moment =
               IF starts = << >> THEN None
               ELSE Some(Lit(starts[Len(starts)].args[1]))

\* the cells that hello_world fills: Moment(1), the values of the
\* characters of "Hello, World!", Moment(1)
HelloCells ==
    << Moment(1),
       Character(72), Character(101), Character(108), Character(108), Character(111),
       Character(44), Character(32),
       Character(87), Character(111), Character(114), Character(108), Character(100),
       Character(33),
       Moment(1) >>

\* hello_world has returned
HelloWorldReturned == pc = "returned" /\ fed = HelloWorldFile

HelloWorldExit ==
    HelloWorldReturned =>
        /\ ExitA.BUFFER_SIZE = 80
        /\ \A i \in 1 .. Len(HelloCells) : ExitA.buffer[i - 1] = HelloCells[i]
        /\ \A i \in Len(HelloCells) .. ExitA.BUFFER_SIZE - 1 : ExitA.buffer[i] = Empty
        /\ ExitA.buffered_characters = 13
        /\ ExitA.buffered_moments = 2

\* C28, as the specification states it: when a label block that consists
\* only of start_moment, push_moment, push_char and push_val instructions on
\* a new exit with a cell for each push has ended, the cells of the exit
\* hold the pushed items of all its push instructions in the order of the
\* instructions, buffered_characters and buffered_moments are the numbers
\* of its character and moment pushes, and last_seen_moment is the value of
\* start_moment; hello_world leaves Moment(1), the 13 characters of
\* "Hello, World!" and Moment(1) with buffered_characters 13 and
\* buffered_moments 2.
BlockLeavesAllPushes ==
    /\ (pc \in { "returned", "panic" } /\ PushesFit) => ExitAHolds(RunInstructions)
    /\ HelloWorldExit

\* C28: while and after a label block that consists only of start_moment,
\* push_moment, push_char and push_val instructions runs on a new exit with
\* a cell for each push, the cells of the exit hold the pushed items of the
\* instructions that have run, in their order, the other cells are Empty,
\* buffered_characters and buffered_moments are the numbers of character
\* and moment pushes that have run, and last_seen_moment is the value of
\* the last start_moment that has run.  The block panics only at a
\* push_val of a value that the alphabet does not declare, before that
\* instruction pushes; otherwise it returns after all its instructions.
\* hello_world leaves Moment(1), the 13 characters of "Hello, World!" and
\* Moment(1) with buffered_characters 13 and buffered_moments 2.
BlockLeavesDeclaredPushes ==
    /\ (pc \in { "running", "returned", "panic" } /\ PushesFit) =>
           /\ ExitAHolds(Done)
           /\ pc = "returned" => Done = RunInstructions
           /\ pc = "panic" =>
                  /\ Len(Done) < Len(RunInstructions)
                  /\ RunInstructions[Len(Done) + 1].cmd = "push_val"
                  /\ ~ValueDeclared(RunInstructions[Len(Done) + 1].args[1])
    /\ HelloWorldExit

\* hello_world has returned with its 13 characters in the exit
BlockLeavesWitness == HelloWorldReturned /\ ExitA.buffered_characters = 13

(***************************************************************************)
(* A push that the exit refuses                                            *)
(***************************************************************************)
\* the running method is at a statement of its body
AtStatement ==
    /\ pc = "running"
    /\ machine.ip <= Len(machine.funcs[machine.func].body)

\* the statement at the position has an item to push onto its exit: a
\* push_moment, a push_char, a push_val of a value that to_char decodes, or
\* a forward_duration whose pop yields a character or a moment
AtPush ==
    /\ AtStatement
    /\ \E stmt \in { Current } :
           \/ stmt.stmt \in { "push_moment", "push_char" }
           \/ /\ stmt.stmt = "push_val"
              /\ Emitted_to_char(machine.alphabets[stmt.alphabet_name],
                                 Lit(stmt.val_lit)).ok
           \/ /\ stmt.stmt = "forward_duration"
              /\ machine.streams[stmt.gateway_field].buffer[
                     machine.streams[stmt.gateway_field].idx].tag
                     \in { "Character", "Moment" }

\* the exit of the statement at the position has no free cell
ExitFull ==
    machine.streams[Current.exit_field].buffered_total
        >= machine.streams[Current.exit_field].BUFFER_SIZE

\* C30: a lowered push_char, push_val, push_moment or forward_duration
\* whose push the exit refuses with BufferFull panics and leaves the exit
\* as it was; after a panic the program makes no step; and whenever such a
\* statement has an item to push and the program goes on, the exit holds
\* one item more, in the cell at its cursor.
RefusedPushAborts ==
    [][ /\ pc # "panic"
        /\ (AtPush /\ ExitFull) =>
               /\ pc' = "panic"
               /\ machine'.ip = machine.ip
               /\ machine'.streams[Current.exit_field] =
                      machine.streams[Current.exit_field]
        /\ (AtPush /\ pc' # "panic") =>
               /\ machine'.streams[Current.exit_field].buffered_total =
                      machine.streams[Current.exit_field].buffered_total + 1
               /\ machine'.streams[Current.exit_field].buffer[
                      machine.streams[Current.exit_field].idx] # Empty ]_vars

\* a forward_duration has taken an item from its gateway and the full exit
\* has refused it
RefusedPushWitness ==
    /\ pc = "panic"
    /\ Current.stmt = "forward_duration"
    /\ ExitA.buffered_total = ExitA.BUFFER_SIZE
    /\ machine.streams[<< "gateway", "b" >>].buffered_total < Len(preload)

(***************************************************************************)
(* A pop at an Empty cell (specification Spec)                             *)
(***************************************************************************)
\* C33: a pop whose cursor cell is Empty returns Empty, leaves the buffer,
\* the three counters and last_seen_moment as they were, and changes idx to
\* (idx + 1) mod BUFFER_SIZE.
EmptyPopOnlyAdvances ==
    [][ (call'.op = "pop" /\ gateway.buffer[gateway.idx] = Empty) =>
            /\ ret' = Empty
            /\ gateway'.buffer = gateway.buffer
            /\ gateway'.buffered_total = gateway.buffered_total
            /\ gateway'.buffered_characters = gateway.buffered_characters
            /\ gateway'.buffered_moments = gateway.buffered_moments
            /\ gateway'.last_seen_moment = gateway.last_seen_moment
            /\ gateway'.idx = (gateway.idx + 1) % gateway.BUFFER_SIZE ]_vars

\* a pop at the Empty last cell of a capacity-3 stream that buffers an item
\* and has seen a moment has returned Empty and wrapped the cursor
EmptyPopWitness ==
    /\ call.op = "pop"
    /\ ret = Empty
    /\ gateway.BUFFER_SIZE = 3
    /\ gateway.idx = 0
    /\ gateway.buffer[2] = Empty
    /\ gateway.buffered_total >= 1
    /\ gateway.last_seen_moment # None

(***************************************************************************)
(* The counters and the cells (specification Spec)                         *)
(***************************************************************************)
\* the number of cells of s whose tag is tag
Cells(s, tag) == Cardinality({ i \in DOMAIN s.buffer : s.buffer[i].tag = tag })

\* C35: in every reachable Stream state buffered_total is the number of
\* cells that are not Empty, buffered_characters the number of Character
\* cells and buffered_moments the number of Moment cells; an accepted push
\* or push_moment writes into a cell that was Empty.
CountersCountCells ==
    /\ [](/\ gateway.buffered_total = gateway.BUFFER_SIZE - Cells(gateway, "Empty")
          /\ gateway.buffered_characters = Cells(gateway, "Character")
          /\ gateway.buffered_moments = Cells(gateway, "Moment"))
    /\ [][ (call'.op \in { "push", "push_moment" } /\ ret' = Ok)
               => gateway.buffer[gateway.idx] = Empty ]_vars

\* C37: no pop decrements a counter that is 0: whenever pop takes a
\* Character cell, buffered_characters >= 1 and buffered_total >= 1, whenever
\* it takes a Moment cell, buffered_moments >= 1 and buffered_total >= 1, and
\* the counters are never negative.
PopNeverUnderflows ==
    /\ [](/\ gateway.buffered_total >= 0
          /\ gateway.buffered_characters >= 0
          /\ gateway.buffered_moments >= 0)
    /\ [][ /\ (call'.op = "pop" /\ gateway.buffer[gateway.idx].tag = "Character")
                => (gateway.buffered_characters >= 1 /\ gateway.buffered_total >= 1)
           /\ (call'.op = "pop" /\ gateway.buffer[gateway.idx].tag = "Moment")
                => (gateway.buffered_moments >= 1 /\ gateway.buffered_total >= 1) ]_vars

\* a pop has taken the only buffered moment while a character was buffered,
\* and a push had overwritten an item before
PopNeverUnderflowsWitness ==
    /\ call.op = "pop"
    /\ ret.tag = "Moment"
    /\ gateway.buffered_moments = 0
    /\ gateway.buffered_characters >= 1
    /\ gateway.buffered_total > gateway.BUFFER_SIZE - Cells(gateway, "Empty")

(***************************************************************************)
(* The order of the surfaced items (specification SpecCursor).  live holds *)
(* the cells of the items that were pushed and neither surfaced nor        *)
(* overwritten since, in the order of their pushes.                        *)
(***************************************************************************)
\* C36: every item that is not Empty and that pop surfaces is the oldest of
\* the items that were pushed and neither surfaced nor overwritten before,
\* it is the item that its push wrote, and pop leaves its cell Empty: the
\* surfaced items therefore come in the order of their pushes and none is
\* surfaced twice.
SurfacedInPushOrder ==
    [][ (call'.op = "pop" /\ ret' # Empty) =>
            /\ live # << >>
            /\ Head(live) = gateway.idx
            /\ ret'.tag = gateway.buffer[gateway.idx].tag
            /\ ret'.tag = "Moment" => ret' = gateway.buffer[gateway.idx]
            /\ ret'.tag = "Character" => to_val(ret'.chr) = gateway.buffer[gateway.idx].chr
            /\ gateway'.buffer[gateway.idx] = Empty
            /\ live' = Tail(live) ]_vars

\* a pop has surfaced the older of two buffered items and the younger one
\* is still to come
SurfacedInPushOrderWitness ==
    /\ call.op = "pop"
    /\ ret.tag = "Moment"
    /\ Len(live) = 1
    /\ gateway.buffer[live[1]].tag = "Character"

(***************************************************************************)
(* Characters across Stream::forward_duration (specification SpecForward)  *)
(***************************************************************************)
\* the gateway as it was when the method was called
GatewayBefore == Load(new(gateway.BUFFER_SIZE), preload)

\* C38: after Stream::forward_duration(exit) has returned, Ok or
\* Err(BufferFull), gateway and exit together hold as many characters as the
\* gateway held before the call (the exit was new), in their cells and in
\* their counters buffered_characters.
ForwardConservesCharacters ==
    pc = "returned" =>
        /\ Cells(gateway, "Character") + Cells(exit, "Character")
              = Cells(GatewayBefore, "Character")
        /\ gateway.buffered_characters + exit.buffered_characters
              = GatewayBefore.buffered_characters

(***************************************************************************)
(* The end of the lowered forward_duration (specification SpecLoweredFair) *)
(***************************************************************************)
\* C39: the loop of a lowered forward_duration G,E ends, by its break or by
\* a panic, whenever gateway G holds a Moment cell; from a state of the loop
\* in which G holds no Moment cell it never reaches its break; and it
\* panics only at a push that the full exit refuses, so without a Moment
\* cell it pops Empty cells forever unless such a push aborts it.
LoweredLoopEnds ==
    /\ []((pc = "lowered" /\ Cells(gateway, "Moment") >= 1)
             => <>(pc \in { "done", "panic" }))
    /\ []((pc = "lowered" /\ Cells(gateway, "Moment") = 0) => [](pc # "done"))
    /\ [](pc = "panic" => exit.buffered_total = exit.BUFFER_SIZE)
    /\ []((pc = "lowered" /\ Cells(gateway, "Moment") = 0
              /\ Cells(gateway, "Character") = 0)
             => [](pc = "lowered" /\ Cells(gateway, "Empty") = gateway.BUFFER_SIZE))

\* the loop has popped all the characters of the gateway into an exit that
\* had room for them and goes on popping Empty cells
LoweredLoopWitness ==
    /\ pc = "lowered"
    /\ call.op = "pop"
    /\ ret = Empty
    /\ Cells(gateway, "Moment") = 0
    /\ Cells(gateway, "Character") = 0
    /\ exit.buffered_characters = Len(preload)

(***************************************************************************)
(* The text of a source line.  A text is the sequence of its tokens: "#",  *)
(* " " (one whitespace character), ",", ";" and words, a word being a      *)
(* longest run of the characters [a-zA-Z0-9_].                             *)
(***************************************************************************)
IsWord(tok) == tok \notin { "#", " ", ",", ";" }

\* COMMENT_REGEX ^(#+)(?<comment>.*)(#*)$
MatchesComment(text) == text # << >> /\ text[1] = "#"

\* CMD_REGEX ^(?<cmd>[a-zA-Z0-9_]+)([\s]+(?<args>.+))?;$
MatchesCmd(text) ==
    /\ Len(text) >= 2
    /\ IsWord(text[1])
    /\ text[Len(text)] = ";"
    /\ \/ Len(text) = 2
       \/ text[2] = " " /\ Len(text) >= 4

\* [\s]+ takes the whitespace it can while .+ keeps one character
RECURSIVE StripSpaces(_)
StripSpaces(toks) ==
    IF Len(toks) > 1 /\ toks[1] = " " THEN StripSpaces(Tail(toks)) ELSE toks

\* the tokens of the group args of a text that CMD_REGEX matches, << >>
\* when the optional group took no part
ArgTokens(text) ==
    IF Len(text) = 2 THEN << >>
    ELSE StripSpaces(SubSeq(text, 3, Len(text) - 1))

\* split(","): the pieces of toks between its commas
RECURSIVE Split(_, _)
Split(toks, piece) ==
    IF toks = << >> THEN << piece >>
    ELSE IF Head(toks) = "," THEN << piece >> \o Split(Tail(toks), << >>)
    ELSE Split(Tail(toks), Append(piece, Head(toks)))

\* a piece of one token is that token
Piece(p) == IF Len(p) = 1 THEN p[1] ELSE p

\* a text that is taken for a command when its last ";" is missing
Lex_NoSemicolon(text) ==
    IF MatchesCmd(text) \/ MatchesCmd(Append(text, ";"))
    THEN IF MatchesCmd(text)
         THEN Command(text[1],
                      IF ArgTokens(text) = << >> THEN << >>
                      ELSE [i \in 1 .. Len(Split(ArgTokens(text), << >>)) |->
                               Piece(Split(ArgTokens(text), << >>)[i])])
         ELSE Command(text[1],
                      IF ArgTokens(Append(text, ";")) = << >> THEN << >>
                      ELSE [i \in 1 .. Len(Split(ArgTokens(Append(text, ";")), << >>)) |->
                               Piece(Split(ArgTokens(Append(text, ";")), << >>)[i])])
    ELSE IF MatchesComment(text) THEN Comment
    ELSE Unmatched

\* the line that parse_line makes of a text: the captures of CMD_REGEX, a
\* comment, or neither
Lex(text) ==
    IF MatchesCmd(text)
    THEN Command(text[1],
                 IF ArgTokens(text) = << >> THEN << >>
                 ELSE [i \in 1 .. Len(Split(ArgTokens(text), << >>)) |->
                          Piece(Split(ArgTokens(text), << >>)[i])])
    ELSE IF MatchesComment(text) THEN Comment
    ELSE Unmatched

\* most lines of a source of texts
MaxTextLines == 4

\* commands of the alphabet and clock sections
CommandTexts ==
    { << "defalphabet", " ", "ASCII", ";" >>,
      << "set_char_type", " ", " ", " ", "u8", ";" >>,
      << "def_char", " ", " ", "0x41", ",", "A_UPPERCASE", ";" >>,
      << "defclock", " ", "CounterClock", ";" >>,
      << "set_moment_type", " ", " ", "u32", ";" >>,
      << "set_clock_repr", " ", " ", "QUANTITY", ";" >> }

\* the text without its last token
WithoutLast(text) == SubSeq(text, 1, Len(text) - 1)

\* the commands, the commands without their semicolon, a command with a
\* space after its semicolon, a comment, an indented word and the empty line
TextLines ==
    CommandTexts
    \cup { WithoutLast(text) : text \in CommandTexts }
    \cup { << "set_clock_repr", " ", "QUANTITY", ";", " " >>,
           << "#", " ", "Defines", " ", "the", " ", "clock" >>,
           << " ", " ", "UNIX_TIMESTAMP" >>,
           << >> }

\* main hands the next line of the source text to the parser
ParseTextLine ==
    \E text \in TextLines :
        /\ pc = "main"
        /\ Len(fed) < MaxTextLines
        /\ \E r \in { parse_line(parser, Lex(text)) } :
               /\ parser' = r.parser
               /\ ret' = IF r.tag = "Ok" THEN Unit ELSE PanicWith(r.msg)
               /\ pc' = IF r.tag = "Ok" THEN "main" ELSE "panic"
        /\ fed' = Append(fed, Lex(text))
        /\ call' = [op |-> "parse_line", line |-> Lex(text), text |-> text]
        /\ UNCHANGED << gateway, exit, run, preload, live, machine >>

NextText == ParseTextLine \/ Generate

SpecText == InitParser /\ [][NextText]_vars

\* C40: a source line that matches neither the command pattern nor the
\* comment pattern is skipped without error: parse_line adds one to the line
\* counter and leaves the dispatcher state, the section under construction
\* and the output buffer as they were; and every command of the source
\* matches neither pattern when it is written without its semicolon, so it
\* has no effect.
UnmatchedLineSkipped ==
    /\ [][ (call'.op = "parse_line" /\ ~MatchesCmd(call'.text)
              /\ ~MatchesComment(call'.text)) =>
               /\ parser'.lineno = parser.lineno + 1
               /\ parser'.state = parser.state
               /\ parser'.source = parser.source
               /\ parser' = [parser EXCEPT !.lineno = @ + 1]
               /\ pc' = "main"
               /\ ret' = Unit ]_vars
    /\ [](\A text \in CommandTexts :
             /\ MatchesCmd(text)
             /\ ~MatchesCmd(WithoutLast(text))
             /\ ~MatchesComment(WithoutLast(text)))

\* set_clock_repr without its semicolon was parsed in the clock section
\* after set_moment_type, and the clock still has no representation
UnmatchedLineWitness ==
    /\ pc = "main"
    /\ call.op = "parse_line"
    /\ call.text = << "set_clock_repr", " ", " ", "QUANTITY" >>
    /\ parser.state.kind = "Clock"
    /\ parser.state.moment_type # None
    /\ parser.state.repr = None
    /\ parser.lineno = 3

(***************************************************************************)
(* Numeric arguments.  The source is made of alphabet and program lines    *)
(* whose numeric argument is a hex or decimal literal, a word that is no   *)
(* number, or a delimiter that is never closed.                            *)
(***************************************************************************)
\* most lines of a source with numeric arguments
MaxLiteralLines == 4

LiteralLines ==
    { Command("defalphabet", << "ASCII" >>),
      Command("set_char_type", << "u8" >>),
      Command("def_char", << "0x41", "A_UPPERCASE" >>),
      Command("def_char", << "sixty_five", "A_UPPERCASE" >>),
      Command("def_char", << "(", "B_UPPERCASE" >>),
      Command("defprogram", << "sync2" >>),
      Command("reg_exit", << "C", "ASCII", "CounterClock", "0x50" >>),
      Command("reg_exit", << "C", "ASCII", "CounterClock", "many" >>),
      Command("start_moment", << "0", "C" >>),
      Command("start_moment", << "now", "C" >>),
      Command("push_moment", << "(", "C" >>),
      Command("push_val", << "0x41", "C" >>),
      Command("push_val", << "sixty_five", "C" >>),
      Command("defclock", << "counter_clock" >>) }

ParseLiteralLine ==
    \E line \in LiteralLines : Len(fed) < MaxLiteralLines /\ ParseLine(line)

NextLiteral == ParseLiteralLine \/ Generate

SpecLiteral == InitParser /\ [][NextLiteral]_vars

\* the text is a run of decimal digits, or 0x and hex digits
IsNumericLiteral(s) == s \in { "0", "1", "0x41", "0x50" }

\* the section under construction holds a numeric argument that is no
\* numeric literal
MalformedLiteral(state) ==
    \/ /\ state.kind = "Alphabet"
       /\ \E i \in 1 .. Len(state.chars) : ~IsNumericLiteral(state.chars[i][1])
    \/ /\ state.kind = "Program"
       /\ \/ \E i \in 1 .. Len(state.gateways \o state.exits) :
                ~IsNumericLiteral((state.gateways \o state.exits)[i].buf_size)
          \/ \E instr \in Instructions(state) :
                \/ /\ instr.op \in { "StartMoment", "PushMoment" }
                   /\ ~IsNumericLiteral(instr.moment)
                \/ /\ instr.op = "PushVal"
                   /\ ~IsNumericLiteral(instr.val)

\* C31: a numeric argument (the value of def_char or push_val, the buffer
\* size of reg_gateway or reg_exit, the moment of start_moment or
\* push_moment) that is neither a run of decimal digits nor 0x and hex
\* digits is rejected with a fatal error and never embedded in the emitted
\* code: when a section that holds such an argument is finalized, parse_line
\* panics and nothing is appended to the output buffer.
MalformedLiteralRejected ==
    [][ (SectionStep /\ MalformedLiteral(parser.state)) =>
            /\ pc' = "panic"
            /\ parser'.source = parser.source ]_vars

(***************************************************************************)
(* The clock identifiers of a program whose gateways name the clock        *)
(* counter_clock in snake case and in Pascal case                          *)
(***************************************************************************)
\* most lines of a source of gateways and jumps
MaxClockLines == 5

ClockNameLines ==
    { Command("defprogram", << "sync2" >>),
      Command("reg_gateway", << "A", "ASCII", "counter_clock", "0x50" >>),
      Command("reg_gateway", << "B", "ASCII", "CounterClock", "0x50" >>),
      Command("label", << "main" >>),
      Command("jump_earlier", << "main", "A", "B" >>),
      Command("jump_later", << "main", "B", "B" >>),
      Command("defclock", << "counter_clock" >>) }

ParseClockNameLine ==
    \E line \in ClockNameLines : Len(fed) < MaxClockLines /\ ParseLine(line)

NextClockName == ParseClockNameLine \/ Generate

SpecClockName == InitParser /\ [][NextClockName]_vars

\* the identifier of the carrier type that Clock::generate emits for the
\* clock called name
CarrierOf(name) ==
    Clock_generate([Clock_new(name) EXCEPT !.moment_type = Some("u32"),
                                           !.repr = Some("QUANTITY")]).code[1].struct_name

\* the jump statements of an emitted program block
JumpStatements(chunk) ==
    { stmt \in UNION { { chunk.funcs[f].body[j] : j \in 1 .. Len(chunk.funcs[f].body) } :
                       f \in 1 .. Len(chunk.funcs) } : IsJumpStatement(stmt) }

\* C34: in every emitted program the clock type identifier that the guard
\* of a lowered jump names for a gateway is the identifier with which the
\* Stream field of that gateway is typed, and that identifier is the one
\* under which the carrier type of the clock is emitted (Clock and the name
\* of the clock in Pascal case), whatever the case of the clock name in the
\* source.
GuardNamesTheClockType ==
    /\ \A i \in 1 .. Len(parser.source) :
           parser.source[i].item = "program" =>
               \A stmt \in JumpStatements(parser.source[i]) :
                   /\ stmt.clock_a =
                          FieldNamed(parser.source[i].gateways,
                                     stmt.gateway_a_field).clock_name
                   /\ stmt.clock_b =
                          FieldNamed(parser.source[i].gateways,
                                     stmt.gateway_b_field).clock_name
    /\ \A line \in ClockNameLines :
           line.cmd = "reg_gateway" =>
               gateway_field([name |-> line.args[1], alphabet |-> line.args[2],
                              clock |-> line.args[3], buf_size |-> line.args[4]]).clock_name
                   = CarrierOf(line.args[3])

\* the jumps taken since the caller entered the label method that is running
JumpsTaken == IF machine.depth = 0 THEN 0 ELSE machine.depth - 1

\* C32: while a label method of an emitted program runs, the chain of the
\* jumps taken since the caller entered it is no longer than the number of
\* the methods of the program (the root block main and the label blocks),
\* so no chain of taken jumps goes on for ever.
JumpChainBounded == JumpsTaken <= Len(machine.funcs)

=============================================================================
